---- MODULE Spec2Model ----
(***************************************************************************)
(* Missionaries-and-cannibals state-space search (GUILN/ai_algorithms).    *)
(*                                                                         *)
(* Two state models live in the repository: the current one                *)
(* (src/src/cannibals, used by the drivers under src/src/bin) and the      *)
(* legacy one (src/src/canibals/world, used by src/src/canibals/solutions).*)
(* Counts are u8: a debug build panics on overflow, a release build wraps  *)
(* modulo 256; the variable build holds which of the two the run is.       *)
(***************************************************************************)
EXTENDS Integers, Sequences, FiniteSets, TLC

VARIABLES
    build,      \* "debug" (overflow checks on) or "release" (u8 arithmetic wraps)
    input,      \* unit runs: the arguments drawn for the call
    self,       \* unit runs: the WorldState the methods are called on
    op,         \* unit runs: the function called last
    ret,        \* unit runs: what it returned
    initial,    \* search runs: the initial-state text (INITIAL_STATE)
    driver,     \* search runs: the program running (1 a_star, 2 dfs, 3 greedy, 4 run_bfs, 5 run_dfs; 0 none yet)
    pc,         \* search runs: "idle", "running" or "done" (of the program running)
    frontier,   \* search runs: next_states_to_visit / next_states_to_visit_heap
    visited,    \* search runs: already_queued_states / queued_states (keys, in insertion order)
    solution,   \* search runs: solution_state once the loop has ended
    finished,   \* search runs: outcome of every program that has ended
    history     \* what each iteration of the running program did (the heap run: its pushes and pops)

vars == <<build, input, self, op, ret, initial, driver, pc, frontier, visited, solution, finished,
          history>>
unitVars == <<input, self, op, ret>>
searchVars == <<initial, driver, pc, frontier, visited, solution, finished, history>>

(***************************************************************************)
(* Bounds of the model                                                     *)
(***************************************************************************)
\* Count arguments are drawn from 0..MaxCount and from the top of the u8 range.
MaxCount == 4

Builds == {"debug", "release"}
BoatSides == {"RightSide", "LeftSide"}
U8Samples == (0..MaxCount) \cup {254, 255}

(***************************************************************************)
(* u8 arithmetic and results                                               *)
(***************************************************************************)
AddU8(a, b) == (a + b) % 256
SubU8(a, b) == (a - b) % 256
AddOverflows(a, b) == a + b > 255
SubOverflows(a, b) == a < b

Ok(v) == [tag |-> "Ok", val |-> v]
Err(kind, n) == [tag |-> "Err", kind |-> kind, n |-> n]
Panic == [tag |-> "Panic"]
None == [tag |-> "None"]
Some(v) == [tag |-> "Some", val |-> v]

(***************************************************************************)
(* src/src/cannibals/side_state.rs                                         *)
(***************************************************************************)
SideState_new(cannibals, missionaries) ==
    [cannibals |-> cannibals, missionaries |-> missionaries]

\* A plausible slip: the minority need not be present.
cannibal_can_eat_missionary_no_guard(side) ==
    side.cannibals > side.missionaries

cannibal_can_eat_missionary(side) ==
    side.cannibals > side.missionaries /\ side.missionaries > 0

\* The table with the (1, m >= 2) row as the legacy module has it.
get_all_send_combinations_swapped_row(side) ==
    LET c == side.cannibals
        m == side.missionaries
    IN  IF c >= 2 /\ m >= 2 THEN <<<<2, 0>>, <<0, 2>>, <<1, 1>>, <<1, 0>>, <<0, 1>>>>
        ELSE IF c >= 2 /\ m = 1 THEN <<<<2, 0>>, <<0, 1>>, <<1, 1>>, <<1, 0>>>>
        ELSE IF c >= 2 /\ m = 0 THEN <<<<2, 0>>, <<1, 0>>>>
        ELSE IF c = 1 /\ m = 1 THEN <<<<1, 0>>, <<0, 1>>, <<1, 1>>>>
        ELSE IF c = 1 /\ m = 0 THEN <<<<1, 0>>>>
        ELSE IF c = 0 /\ m = 1 THEN <<<<0, 1>>>>
        ELSE IF c = 0 /\ m >= 2 THEN <<<<0, 2>>, <<0, 1>>>>
        ELSE IF c = 1 /\ m >= 2 THEN <<<<2, 0>>, <<0, 1>>, <<1, 1>>, <<1, 0>>>>
        ELSE <<<<0, 0>>>>

get_all_send_combinations(side) ==
    LET c == side.cannibals
        m == side.missionaries
    IN  IF c >= 2 /\ m >= 2 THEN <<<<2, 0>>, <<0, 2>>, <<1, 1>>, <<1, 0>>, <<0, 1>>>>
        ELSE IF c >= 2 /\ m = 1 THEN <<<<2, 0>>, <<0, 1>>, <<1, 1>>, <<1, 0>>>>
        ELSE IF c >= 2 /\ m = 0 THEN <<<<2, 0>>, <<1, 0>>>>
        ELSE IF c = 1 /\ m = 1 THEN <<<<1, 0>>, <<0, 1>>, <<1, 1>>>>
        ELSE IF c = 1 /\ m = 0 THEN <<<<1, 0>>>>
        ELSE IF c = 0 /\ m = 1 THEN <<<<0, 1>>>>
        ELSE IF c = 0 /\ m >= 2 THEN <<<<0, 2>>, <<0, 1>>>>
        ELSE IF c = 1 /\ m >= 2 THEN <<<<0, 2>>, <<0, 1>>, <<1, 1>>, <<1, 0>>>>
        ELSE <<<<0, 0>>>>

(***************************************************************************)
(* src/src/cannibals/world_state.rs                                        *)
(***************************************************************************)
BoatSide_into_string(boat_side) ==
    IF boat_side = "RightSide" THEN "right" ELSE "left"

WorldState_new(left_state, right_state, boat_side, backtrack) ==
    IF build = "debug"
       /\ (AddOverflows(left_state.cannibals, right_state.cannibals)
           \/ AddOverflows(left_state.missionaries, right_state.missionaries))
    THEN Panic
    ELSE LET total_cannibals == AddU8(left_state.cannibals, right_state.cannibals)
             total_missionaries == AddU8(left_state.missionaries, right_state.missionaries)
         IN  IF total_cannibals /= 3
             THEN Err("ImpossibleNumberOfCannibals", total_cannibals)
             ELSE IF total_missionaries /= 3
             THEN Err("ImpossibleNumberOfMissionaries", total_missionaries)
             ELSE Ok([left_state |-> left_state, right_state |-> right_state,
                      boat_side |-> boat_side, backtrack |-> backtrack])

\* The u8 operations of one move: subtractions on the side the boat leaves,
\* additions on the side it reaches.
MovePanics(from, to, cann, missi) ==
    build = "debug"
    /\ (SubOverflows(from.cannibals, cann) \/ SubOverflows(from.missionaries, missi)
        \/ AddOverflows(to.cannibals, cann) \/ AddOverflows(to.missionaries, missi))

mov_to(cann, missi, side_name) ==
    "send " \o ToString(cann) \o " cannibals and " \o ToString(missi)
        \o " missionaries to the " \o side_name \o " side"

\* A plausible slip: the boat stays where it was.
send_to_left_boat_stays(ws, cann, missi) ==
    WorldState_new(
        SideState_new(AddU8(ws.left_state.cannibals, cann),
                      AddU8(ws.left_state.missionaries, missi)),
        SideState_new(SubU8(ws.right_state.cannibals, cann),
                      SubU8(ws.right_state.missionaries, missi)),
        "RightSide",
        ws.backtrack \o "|" \o mov_to(cann, missi, "left"))

\* The closure of the RightSide arm: the boat goes from right to left.
send_to_left(ws, cann, missi) ==
    WorldState_new(
        SideState_new(AddU8(ws.left_state.cannibals, cann),
                      AddU8(ws.left_state.missionaries, missi)),
        SideState_new(SubU8(ws.right_state.cannibals, cann),
                      SubU8(ws.right_state.missionaries, missi)),
        "LeftSide",
        ws.backtrack \o "|" \o mov_to(cann, missi, "left"))

\* The closure of the LeftSide arm: the boat goes from left to right.
send_to_right(ws, cann, missi) ==
    WorldState_new(
        SideState_new(SubU8(ws.left_state.cannibals, cann),
                      SubU8(ws.left_state.missionaries, missi)),
        SideState_new(AddU8(ws.right_state.cannibals, cann),
                      AddU8(ws.right_state.missionaries, missi)),
        "RightSide",
        ws.backtrack \o "|" \o mov_to(cann, missi, "right"))

\* Ok(sequence of WorldStateResult), or Panic when a u8 operation of some move
\* overflows in a debug build (the Vec is collected eagerly).
get_child_states(ws) ==
    LET from == IF ws.boat_side = "LeftSide" THEN ws.left_state ELSE ws.right_state
        to == IF ws.boat_side = "LeftSide" THEN ws.right_state ELSE ws.left_state
        combos == get_all_send_combinations(from)
        children == [i \in 1..Len(combos) |->
                        IF ws.boat_side = "LeftSide"
                        THEN send_to_right(ws, combos[i][1], combos[i][2])
                        ELSE send_to_left(ws, combos[i][1], combos[i][2])]
    IN  IF \E i \in 1..Len(combos) :
              MovePanics(from, to, combos[i][1], combos[i][2]) \/ children[i] = Panic
        THEN Panic
        ELSE Ok(children)

\* Variant that counts everybody missing on the left side.
get_heuristic_counting_all(ws) ==
    Ok(6 - ws.left_state.missionaries - ws.left_state.cannibals)

get_heuristic(ws) ==
    IF build = "debug" /\ SubOverflows(3, ws.left_state.missionaries)
    THEN Panic
    ELSE Ok(SubU8(3, ws.left_state.missionaries))

\* A plausible slip: the goal tests the wrong side.
is_solution_right_side(ws) == ws.right_state.missionaries = 3

is_solution(ws) == ws.left_state.missionaries = 3

\* Variant looking at the left side only.
is_game_over_left_only(ws) == cannibal_can_eat_missionary(ws.left_state)

is_game_over(ws) ==
    cannibal_can_eat_missionary(ws.left_state)
    \/ cannibal_can_eat_missionary(ws.right_state)

\* Variant that leaves the boat side out.
WorldState_into_string_without_boat(ws) ==
    ToString(ws.left_state.cannibals) \o " " \o ToString(ws.left_state.missionaries)
        \o " " \o ToString(ws.right_state.cannibals) \o " "
        \o ToString(ws.right_state.missionaries)

\* Variant that writes the right side first.
WorldState_into_string_right_first(ws) ==
    ToString(ws.right_state.cannibals) \o " " \o ToString(ws.right_state.missionaries)
        \o " " \o ToString(ws.left_state.cannibals) \o " "
        \o ToString(ws.left_state.missionaries) \o " " \o BoatSide_into_string(ws.boat_side)

\* Into<String> for &WorldState: the canonical key.
WorldState_into_string(ws) ==
    ToString(ws.left_state.cannibals) \o " " \o ToString(ws.left_state.missionaries)
        \o " " \o ToString(ws.right_state.cannibals) \o " "
        \o ToString(ws.right_state.missionaries) \o " "
        \o BoatSide_into_string(ws.boat_side)

(***************************************************************************)
(* Text: str::split, str::trim, str::parse::<u8>                           *)
(***************************************************************************)
Char(s, i) == SubSeq(s, i, i)

\* str::split(sep) for a one-character separator: the pieces between the
\* separators, empty pieces included.
Split(s, sep) ==
    LET P == {i \in 1..Len(s) : Char(s, i) = sep}
        n == Cardinality(P)
        \* position of the k-th separator; 0 before the first, Len(s) + 1 after the last
        At(k) == IF k = 0 THEN 0
                 ELSE IF k = n + 1 THEN Len(s) + 1
                 ELSE CHOOSE q \in P : Cardinality({r \in P : r < q}) = k - 1
    IN  [k \in 1..(n + 1) |-> SubSeq(s, At(k - 1) + 1, At(k) - 1)]

Whitespace == {" ", "\t", "\n", "\r"}

\* str::trim: drops the whitespace at both ends.
Trim(s) ==
    LET Keep == {i \in 1..Len(s) : Char(s, i) \notin Whitespace}
    IN  IF Keep = {} THEN ""
        ELSE SubSeq(s, CHOOSE i \in Keep : \A j \in Keep : i <= j,
                       CHOOSE i \in Keep : \A j \in Keep : j <= i)

Digits == {"0", "1", "2", "3", "4", "5", "6", "7", "8", "9"}

DigitVal(ch) ==
    CASE ch = "0" -> 0 [] ch = "1" -> 1 [] ch = "2" -> 2 [] ch = "3" -> 3 [] ch = "4" -> 4
      [] ch = "5" -> 5 [] ch = "6" -> 6 [] ch = "7" -> 7 [] ch = "8" -> 8 [] ch = "9" -> 9

RECURSIVE DecimalValue(_, _)
DecimalValue(s, n) ==
    IF n = 0 THEN 0 ELSE 10 * DecimalValue(s, n - 1) + DigitVal(Char(s, n))

\* str::parse::<u8>: an optional "+", then one or more digits, value at most 255.
ParseU8(s) ==
    LET body == IF Len(s) > 0 /\ Char(s, 1) = "+" THEN SubSeq(s, 2, Len(s)) ELSE s
    IN  IF Len(body) = 0 \/ \E i \in 1..Len(body) : Char(body, i) \notin Digits
        THEN Err("ParseFromStringError", "Error while trying to parse a number from string")
        ELSE IF DecimalValue(body, Len(body)) > 255
        THEN Err("ParseFromStringError", "Error while trying to parse a number from string")
        ELSE Ok(DecimalValue(body, Len(body)))

\* Variant that takes anything but "right" for the left side.
BoatSide_try_from_lenient(value) ==
    IF Trim(value) = "right" THEN Ok("RightSide") ELSE Ok("LeftSide")

BoatSide_try_from(value) ==
    IF Trim(value) = "right" THEN Ok("RightSide")
    ELSE IF Trim(value) = "left" THEN Ok("LeftSide")
    ELSE Err("ParseFromStringError", "Invalid Value For BoatSide")

\* TryFrom<&str> for WorldState, up to the call of WorldState::new: the four
\* counts and the boat side, or the first parse error.
try_from_fields(value) ==
    LET v == Split(value, " ")
    IN  IF Len(v) < 5
        THEN Err("ParseFromStringError", "Non sufficient number of args")
        ELSE LET l_c == ParseU8(Trim(v[1]))
                 l_m == ParseU8(Trim(v[2]))
                 r_c == ParseU8(Trim(v[3]))
                 r_m == ParseU8(Trim(v[4]))
                 b == BoatSide_try_from(Trim(v[5]))
             IN  IF l_c.tag = "Err" THEN l_c
                 ELSE IF l_m.tag = "Err" THEN l_m
                 ELSE IF r_c.tag = "Err" THEN r_c
                 ELSE IF r_m.tag = "Err" THEN r_m
                 ELSE IF b.tag = "Err" THEN b
                 ELSE Ok([left_state |-> SideState_new(l_c.val, l_m.val),
                          right_state |-> SideState_new(r_c.val, r_m.val),
                          boat_side |-> b.val])

WorldState_try_from(value) ==
    LET f == try_from_fields(value)
    IN  IF f.tag = "Err" THEN f
        ELSE WorldState_new(f.val.left_state, f.val.right_state, f.val.boat_side,
                            "root state")

get_step_by_step(ws) == ws.backtrack

get_step_by_step_vec(ws) == Split(get_step_by_step(ws), "|")

(***************************************************************************)
(* The legacy state model: src/src/canibals/world/side_state.rs and        *)
(* src/src/canibals/world/world_state.rs. A backtrack is the pair          *)
(* (Option<&WorldState>, String): the parent state and the move.           *)
(***************************************************************************)
legacy_cannibal_can_eat_missionary(side) ==
    side.cannibals > side.missionaries /\ side.missionaries > 0

legacy_get_all_send_combinations(side) ==
    LET c == side.cannibals
        m == side.missionaries
    IN  IF c >= 2 /\ m >= 2 THEN <<<<2, 0>>, <<0, 2>>, <<1, 1>>, <<1, 0>>, <<0, 1>>>>
        ELSE IF c >= 2 /\ m = 1 THEN <<<<2, 0>>, <<0, 1>>, <<1, 1>>, <<1, 0>>>>
        ELSE IF c >= 2 /\ m = 0 THEN <<<<2, 0>>, <<1, 0>>>>
        ELSE IF c = 1 /\ m = 1 THEN <<<<1, 0>>, <<0, 1>>, <<1, 1>>>>
        ELSE IF c = 1 /\ m = 0 THEN <<<<1, 0>>>>
        ELSE IF c = 0 /\ m = 1 THEN <<<<0, 1>>>>
        ELSE IF c = 0 /\ m >= 2 THEN <<<<0, 2>>, <<0, 1>>>>
        ELSE IF c = 1 /\ m >= 2 THEN <<<<2, 0>>, <<0, 1>>, <<1, 1>>, <<1, 0>>>>
        ELSE <<<<0, 0>>>>

legacy_WorldState_new(left_state, right_state, boat_side, backtrack) ==
    IF build = "debug"
       /\ (AddOverflows(left_state.cannibals, right_state.cannibals)
           \/ AddOverflows(left_state.missionaries, right_state.missionaries))
    THEN Panic
    ELSE LET total_cannibals == AddU8(left_state.cannibals, right_state.cannibals)
             total_missionaries == AddU8(left_state.missionaries, right_state.missionaries)
         IN  IF total_cannibals /= 3
             THEN Err("ImpossibleNumberOfCannibals", total_cannibals)
             ELSE IF total_missionaries /= 3
             THEN Err("ImpossibleNumberOfMissionaries", total_missionaries)
             ELSE Ok([left_state |-> left_state, right_state |-> right_state,
                      boat_side |-> boat_side, backtrack |-> backtrack])

legacy_backtrack(parent, mov) == [parent |-> parent, mov |-> mov]

legacy_send_to_left(ws, cann, missi) ==
    legacy_WorldState_new(
        SideState_new(AddU8(ws.left_state.cannibals, cann),
                      AddU8(ws.left_state.missionaries, missi)),
        SideState_new(SubU8(ws.right_state.cannibals, cann),
                      SubU8(ws.right_state.missionaries, missi)),
        "LeftSide",
        legacy_backtrack(Some(ws), mov_to(cann, missi, "left")))

legacy_send_to_right(ws, cann, missi) ==
    legacy_WorldState_new(
        SideState_new(SubU8(ws.left_state.cannibals, cann),
                      SubU8(ws.left_state.missionaries, missi)),
        SideState_new(AddU8(ws.right_state.cannibals, cann),
                      AddU8(ws.right_state.missionaries, missi)),
        "RightSide",
        legacy_backtrack(Some(ws), mov_to(cann, missi, "right")))

legacy_get_child_states(ws) ==
    LET from == IF ws.boat_side = "LeftSide" THEN ws.left_state ELSE ws.right_state
        to == IF ws.boat_side = "LeftSide" THEN ws.right_state ELSE ws.left_state
        combos == legacy_get_all_send_combinations(from)
        children == [i \in 1..Len(combos) |->
                        IF ws.boat_side = "LeftSide"
                        THEN legacy_send_to_right(ws, combos[i][1], combos[i][2])
                        ELSE legacy_send_to_left(ws, combos[i][1], combos[i][2])]
    IN  IF \E i \in 1..Len(combos) :
              MovePanics(from, to, combos[i][1], combos[i][2]) \/ children[i] = Panic
        THEN Panic
        ELSE Ok(children)

legacy_is_solution(ws) == ws.left_state.missionaries = 3

\* Variant looking at the left side only.
legacy_is_game_over_left_only(ws) == legacy_cannibal_can_eat_missionary(ws.left_state)

legacy_is_game_over(ws) ==
    legacy_cannibal_can_eat_missionary(ws.left_state)
    \/ legacy_cannibal_can_eat_missionary(ws.right_state)

legacy_WorldState_try_from(value) ==
    LET f == try_from_fields(value)
    IN  IF f.tag = "Err" THEN f
        ELSE legacy_WorldState_new(f.val.left_state, f.val.right_state, f.val.boat_side,
                                   legacy_backtrack(None, "root state"))

legacy_WorldState_into_string(ws) ==
    ToString(ws.left_state.cannibals) \o " " \o ToString(ws.left_state.missionaries)
        \o " " \o ToString(ws.right_state.cannibals) \o " "
        \o ToString(ws.right_state.missionaries) \o " "
        \o BoatSide_into_string(ws.boat_side)

\* Display for a state without parent: the serde_json text of the struct.
legacy_display_root(ws) ==
    "{\"left_state\":{\"cannibals\":" \o ToString(ws.left_state.cannibals)
        \o ",\"missionaries\":" \o ToString(ws.left_state.missionaries)
        \o "},\"right_state\":{\"cannibals\":" \o ToString(ws.right_state.cannibals)
        \o ",\"missionaries\":" \o ToString(ws.right_state.missionaries)
        \o "},\"boat_side\":\"" \o ws.boat_side
        \o "\",\"backtrack\":[null,\"" \o ws.backtrack.mov \o "\"]}"

RECURSIVE legacy_get_step_by_step(_)
legacy_get_step_by_step(ws) ==
    IF ws.backtrack.parent.tag = "Some"
    THEN ws.backtrack.mov \o "|" \o legacy_get_step_by_step(ws.backtrack.parent.val)
    ELSE legacy_display_root(ws)

vec_reverse(seq) == [i \in 1..Len(seq) |-> seq[Len(seq) + 1 - i]]

\* Variant that leaves out the reverse.
legacy_get_step_by_step_vec_not_reversed(ws) == Split(legacy_get_step_by_step(ws), "|")

legacy_get_step_by_step_vec(ws) == vec_reverse(Split(legacy_get_step_by_step(ws), "|"))

(***************************************************************************)
(* The frontiers. A VecDeque is the sequence front to back. The BinaryHeap *)
(* of Reverse(WorldStateHeapWrapper) is its backing vector (position p of  *)
(* the vector is element p + 1 of the sequence), with the sifting of the   *)
(* standard library's max-heap.                                            *)
(***************************************************************************)
\* Variant that puts the entry at the back.
push_front_at_back(deque, x) == Append(deque, x)

\* Variant that loses the entry.
push_front_dropped(deque, x) == deque

push_front(deque, x) == <<x>> \o deque
push_back(deque, x) == Append(deque, x)

\* Ord of WorldStateHeapWrapper (by get_heuristic alone), as a <= b.
\* A plausible slip: the comparison the wrong way round.
wrapper_le_inverted(a, b) == get_heuristic(a).val >= get_heuristic(b).val

wrapper_le(a, b) == get_heuristic(a).val <= get_heuristic(b).val

\* Reverse(a) <= Reverse(b) is b <= a.
reverse_le(a, b) == wrapper_le(b, a)

RECURSIVE sift_up(_, _, _, _)
\* The hole is at pos, its element elt held aside; moves the hole up while
\* the parent is smaller than elt, then fills it.
sift_up(data, start, pos, elt) ==
    IF pos > start
    THEN LET parent == (pos - 1) \div 2
         IN  IF reverse_le(elt, data[parent + 1])
             THEN [data EXCEPT ![pos + 1] = elt]
             ELSE sift_up([data EXCEPT ![pos + 1] = data[parent + 1]], start, parent, elt)
    ELSE [data EXCEPT ![pos + 1] = elt]

RECURSIVE sift_down_to_bottom(_, _, _)
\* The hole is at pos, its element elt held aside; takes the hole down to a
\* leaf along the greater children (the right one on a tie), then sifts up.
sift_down_to_bottom(data, pos, elt) ==
    LET end == Len(data)
        child == 2 * pos + 1
    IN  IF end >= 2 /\ child <= end - 2
        THEN LET c == IF reverse_le(data[child + 1], data[child + 2])
                      THEN child + 1 ELSE child
             IN  sift_down_to_bottom([data EXCEPT ![pos + 1] = data[c + 1]], c, elt)
        ELSE IF child = end - 1
        THEN sift_up([data EXCEPT ![pos + 1] = data[child + 1]], 0, child, elt)
        ELSE sift_up(data, 0, pos, elt)

heap_push(data, x) == sift_up(Append(data, x), 0, Len(data), x)

\* BinaryHeap::pop of a non-empty heap: the item and the vector left.
heap_pop(data) ==
    LET last == data[Len(data)]
        rest == SubSeq(data, 1, Len(data) - 1)
    IN  IF rest = <<>>
        THEN [item |-> last, data |-> <<>>]
        ELSE [item |-> rest[1], data |-> sift_down_to_bottom(rest, 0, last)]

\* Variant that never finds a key.
contains_key_never(map, key) == FALSE

\* HashMap<String, bool>: the keys, kept here in the order they came in.
contains_key(map, key) == \E i \in 1..Len(map) : map[i] = key
hashmap_insert(map, key) == IF contains_key(map, key) THEN map ELSE Append(map, key)

\* Variant that leaves the order get_child_states returned.
sort_by_heuristic_unsorted(states) == states

RECURSIVE sort_by_heuristic_desc(_)
\* slice::sort_by(|a, b| b.get_heuristic().cmp(&a.get_heuristic())): stable,
\* greatest heuristic first.
sort_by_heuristic_desc(states) ==
    IF Len(states) <= 1 THEN states
    ELSE LET front == sort_by_heuristic_desc(SubSeq(states, 1, Len(states) - 1))
             x == states[Len(states)]
             k == Cardinality({i \in 1..Len(front) :
                                 get_heuristic(front[i]).val >= get_heuristic(x).val})
         IN  SubSeq(front, 1, k) \o <<x>> \o SubSeq(front, k + 1, Len(front))

\* .map(|w_result| w_result.expect("faulty state")): the states, or a panic.
AnyFaulty(results) == \E i \in 1..Len(results) : results[i].tag /= "Ok"
Unwrapped(results) == [i \in 1..Len(results) |-> results[i].val]

(***************************************************************************)
(* Unit runs: the arguments are drawn by InitUnit, each action is one call *)
(***************************************************************************)
NoState == [tag |-> "None"]

SearchIdle ==
    /\ initial = ""
    /\ driver = 0
    /\ pc = "idle"
    /\ frontier = <<>>
    /\ visited = <<>>
    /\ solution = None
    /\ finished = <<>>
    /\ history = <<>>

InitUnit ==
    /\ build \in Builds
    /\ input \in [l_c : U8Samples, l_m : U8Samples, r_c : U8Samples, r_m : U8Samples,
                  boat : BoatSides]
    /\ self = NoState
    /\ op = "none"
    /\ ret = None
    /\ SearchIdle

\* WorldState::new(SideState::new(l_c, l_m), SideState::new(r_c, r_m), boat, "root state")
U_new ==
    /\ op = "none"
    /\ op' = "new"
    /\ ret' = WorldState_new(SideState_new(input.l_c, input.l_m),
                             SideState_new(input.r_c, input.r_m),
                             input.boat, "root state")
    /\ self' = IF ret'.tag = "Ok" THEN ret'.val ELSE NoState
    /\ UNCHANGED <<build, input, searchVars>>

\* SideState::new(l_c, l_m).get_all_send_combinations()
U_get_all_send_combinations ==
    /\ op = "none"
    /\ op' = "get_all_send_combinations"
    /\ ret' = Ok(get_all_send_combinations(SideState_new(input.l_c, input.l_m)))
    /\ UNCHANGED <<build, input, self, searchVars>>

U_get_child_states ==
    /\ op = "new" /\ self /= NoState
    /\ op' = "get_child_states"
    /\ ret' = get_child_states(self)
    /\ UNCHANGED <<build, input, self, searchVars>>

U_is_solution ==
    /\ op = "new" /\ self /= NoState
    /\ op' = "is_solution"
    /\ ret' = Ok(is_solution(self))
    /\ UNCHANGED <<build, input, self, searchVars>>

U_is_game_over ==
    /\ op = "new" /\ self /= NoState
    /\ op' = "is_game_over"
    /\ ret' = Ok(is_game_over(self))
    /\ UNCHANGED <<build, input, self, searchVars>>

U_get_heuristic ==
    /\ op = "new" /\ self /= NoState
    /\ op' = "get_heuristic"
    /\ ret' = get_heuristic(self)
    /\ UNCHANGED <<build, input, self, searchVars>>

\* The legacy SideState::new(l_c, l_m).get_all_send_combinations()
U_legacy_get_all_send_combinations ==
    /\ op = "none"
    /\ op' = "legacy_get_all_send_combinations"
    /\ ret' = Ok(legacy_get_all_send_combinations(SideState_new(input.l_c, input.l_m)))
    /\ UNCHANGED <<build, input, self, searchVars>>

\* get_child_states() of the legacy WorldState built from the same arguments
\* (the two constructors accept the same arguments).
U_legacy_get_child_states ==
    /\ op = "new" /\ self /= NoState
    /\ op' = "legacy_get_child_states"
    /\ ret' = legacy_get_child_states(
                  [self EXCEPT !.backtrack = legacy_backtrack(None, "root state")])
    /\ UNCHANGED <<build, input, self, searchVars>>

NextUnit ==
    \/ U_new
    \/ U_get_all_send_combinations
    \/ U_get_child_states
    \/ U_is_solution
    \/ U_is_game_over
    \/ U_get_heuristic
    \/ U_legacy_get_all_send_combinations
    \/ U_legacy_get_child_states

SpecUnit == InitUnit /\ [][NextUnit]_vars

(***************************************************************************)
(* Heap runs: a sequence of states is pushed as Reverse(WorldStateHeapWrapper) *)
(* into a BinaryHeap, which is then popped until it is empty. input is the *)
(* sequence, frontier the heap's vector, history the pushes and pops made. *)
(***************************************************************************)
\* The sequences pushed have at most MaxHeapLen entries.
MaxHeapLen == 5

\* The states of test_world_state_heap_wrapper_maintains_expected_order:
\* heuristics 3, 2, 0, 0, 1.
HeapTexts ==
    {"0 0 3 3 right", "1 1 2 2 right", "0 3 3 0 right", "2 3 1 0 right", "2 2 1 1 right"}

HeapStates == {WorldState_try_from(text).val : text \in HeapTexts}

InitHeap ==
    /\ build \in Builds
    /\ input \in UNION {[1..n -> HeapStates] : n \in 0..MaxHeapLen}
    /\ self = NoState
    /\ op = "none"
    /\ ret = None
    /\ SearchIdle

Pushes == SelectSeq(history, LAMBDA e : e.op = "push")
Pops == SelectSeq(history, LAMBDA e : e.op = "pop")

\* heap.push(Reverse(WorldStateHeapWrapper::new(Rc::new(world_state))))
H_push ==
    /\ Pops = <<>>
    /\ Len(Pushes) < Len(input)
    /\ LET world_state == input[Len(Pushes) + 1]
       IN  /\ frontier' = heap_push(frontier, world_state)
           /\ history' = Append(history, [op |-> "push", state |-> world_state])
    /\ UNCHANGED <<build, unitVars, initial, driver, pc, visited, solution, finished>>

\* heap.pop(), once everything has been pushed.
H_pop ==
    /\ Len(Pushes) = Len(input)
    /\ frontier /= <<>>
    /\ frontier' = heap_pop(frontier).data
    /\ history' = Append(history, [op |-> "pop", state |-> heap_pop(frontier).item])
    /\ UNCHANGED <<build, unitVars, initial, driver, pc, visited, solution, finished>>

NextHeap ==
    \/ H_push
    \/ H_pop

SpecHeap == InitHeap /\ [][NextHeap]_vars

(***************************************************************************)
(* Text runs: a text is given to WorldState::try_from, the state parsed is *)
(* turned into its key, and the key is parsed again. initial is the text.  *)
(***************************************************************************)
\* What stands between two fields of a text.
Separators == {" ", "  ", "\t", " \t", "\n "}

\* The five fields of a valid state written one after another with the
\* separator between them.
FieldsText(c, m, b, sep) ==
    ToString(c) \o sep \o ToString(m) \o sep \o ToString(3 - c) \o sep \o ToString(3 - m)
        \o sep \o b

\* Texts of five whitespace-separated fields with totals 3 and 3.
SeparatedTexts ==
    {FieldsText(c, m, b, sep) : c \in 0..3, m \in 0..3, b \in {"left", "right"},
                                sep \in Separators}

\* The same with whitespace before the first or after the last field.
PaddedTexts == {" 0 0 3 3 right", "\t1 2 2 1 left", "0 0 3 3 right ", "3 0 0 3 left\n"}

\* Texts with fewer than five fields, with a field that is not a number, with
\* a fifth field that is not a side, and with counts written another way.
MalformedTexts ==
    {"", "right", "0 0 3", "0 0 3 3", "0 0 3 3right",
     "a 0 3 3 right", "0 x 3 3 left", "0 0 three 3 right", "0 0 3 3.0 left", "1 1 2 ? left",
     "0 0 3 3 Right", "0 0 3 3 up", "3 3 0 0 l", "0 0 3 3 rightleft",
     "x 0 3 3 up", "0 0 2 y left", "+0 00 3 3 right", "0 0 3 3 right now"}

TextInputs == SeparatedTexts \cup PaddedTexts \cup MalformedTexts

InitText ==
    /\ build \in Builds
    /\ initial \in TextInputs
    /\ driver = 0
    /\ pc = "idle"
    /\ frontier = <<>>
    /\ visited = <<>>
    /\ solution = None
    /\ finished = <<>>
    /\ history = <<>>
    /\ input = [l_c |-> 0, l_m |-> 0, r_c |-> 0, r_m |-> 0, boat |-> "RightSide"]
    /\ self = NoState
    /\ op = "none"
    /\ ret = None

\* let world_state_result: Result<WorldState, WorldStateError> = text.try_into();
T_try_from ==
    /\ op = "none"
    /\ op' = "try_from"
    /\ ret' = WorldState_try_from(initial)
    /\ self' = IF WorldState_try_from(initial).tag = "Ok"
               THEN WorldState_try_from(initial).val ELSE NoState
    /\ UNCHANGED <<build, input, searchVars>>

\* let key: String = (&world_state).into();
T_into_string ==
    /\ op = "try_from" /\ self /= NoState
    /\ op' = "into_string"
    /\ ret' = Ok(WorldState_into_string(self))
    /\ UNCHANGED <<build, input, self, searchVars>>

\* The key is given to WorldState::try_from.
T_key_try_from ==
    /\ op = "into_string"
    /\ op' = "key_try_from"
    /\ ret' = WorldState_try_from(ret.val)
    /\ UNCHANGED <<build, input, self, searchVars>>

NextText ==
    \/ T_try_from
    \/ T_into_string
    \/ T_key_try_from

SpecText == InitText /\ [][NextText]_vars

(***************************************************************************)
(* Search runs. The five programs are run one after another on the same    *)
(* initial-state text, each from fresh collections; finished keeps what    *)
(* each ended with: Some(state), None, or Panic (an expect on a faulty     *)
(* state, or an arithmetic overflow in a debug build).                     *)
(***************************************************************************)
INITIAL_STATE == "0 0 3 3 right"

\* The keys of the 32 valid states.
ValidTexts ==
    {ToString(c) \o " " \o ToString(m) \o " " \o ToString(3 - c) \o " " \o ToString(3 - m)
        \o " " \o b : c \in 0..3, m \in 0..3, b \in {"left", "right"}}

\* Texts of five well-formed fields whose counts do not add up to 3 and 3; in
\* the last one a sum exceeds 255.
WrongTotalTexts ==
    {"0 0 2 3 right", "0 0 3 2 right", "1 1 3 3 left", "0 0 0 0 left", "255 0 4 3 right"}

\* The initial-state texts the programs are run on.
InitialTexts == ValidTexts \cup WrongTotalTexts

Init ==
    /\ build \in Builds
    /\ initial \in InitialTexts
    /\ driver = 0
    /\ pc = "idle"
    /\ frontier = <<>>
    /\ visited = <<>>
    /\ solution = None
    /\ finished = <<>>
    /\ history = <<>>
    /\ input = [l_c |-> 0, l_m |-> 0, r_c |-> 0, r_m |-> 0, boat |-> "RightSide"]
    /\ self = NoState
    /\ op = "none"
    /\ ret = None

\* The loop has ended (break, or a panic): the program's outcome is kept.
Ended(program, outcome, fr, keys) ==
    /\ pc' = "done"
    /\ solution' = outcome
    /\ frontier' = fr
    /\ visited' = keys
    /\ finished' = Append(finished, [program |-> program, solution |-> outcome,
                                     visited |-> keys])

\* continue: the loop goes on with the frontier and the visited keys given.
Continue(fr, keys) ==
    /\ pc' = "running"
    /\ solution' = None
    /\ frontier' = fr
    /\ visited' = keys
    /\ finished' = finished

\* What one iteration did: the state it worked on, whether that state was popped
\* from the frontier (the root is not), whether get_child_states was called on
\* it, and the entries the iteration pushed.
Iteration(state, popped, expanded, before, after) ==
    [state |-> state, popped |-> popped, expanded |-> expanded,
     pushed |-> {after[i] : i \in 1..Len(after)} \ {before[i] : i \in 1..Len(before)}]

\* The program stopped before it had a root state.
NoIteration == history' = <<>>

\* The root's children were asked for (and pushed, unless that panicked).
RootIteration(root) == history' = <<Iteration(root, FALSE, TRUE, <<>>, frontier')>>

\* An iteration of the loop that popped state and left rest.
LoopIteration(state, expanded, rest) ==
    history' = Append(history, Iteration(state, TRUE, expanded, rest, frontier'))

\* Vec<String>::contains
vec_contains(vec, key) == \E i \in 1..Len(vec) : vec[i] = key

(***************************************************************************)
(* src/src/bin/a_star.rs                                                   *)
(***************************************************************************)
RECURSIVE a_star_queue_initial(_, _, _, _)
\* The for_each over the root's children: every child is pushed and its key inserted.
a_star_queue_initial(children, i, fr, map) ==
    IF i > Len(children) THEN [frontier |-> fr, visited |-> map]
    ELSE a_star_queue_initial(children, i + 1, heap_push(fr, children[i]),
                              hashmap_insert(map, WorldState_into_string(children[i])))

RECURSIVE a_star_queue_children(_, _, _, _)
\* The for loop over a popped state's children: a child whose key is already
\* queued is skipped, any other is pushed and its key inserted.
a_star_queue_children(children, i, fr, map) ==
    IF i > Len(children) THEN [frontier |-> fr, visited |-> map]
    ELSE IF contains_key(map, WorldState_into_string(children[i]))
    THEN a_star_queue_children(children, i + 1, fr, map)
    ELSE a_star_queue_children(children, i + 1, heap_push(fr, children[i]),
                               hashmap_insert(map, WorldState_into_string(children[i])))

\* main, up to the loop.
a_star_start ==
    /\ driver = 0 /\ pc = "idle"
    /\ driver' = 1
    /\ LET initial_state == WorldState_try_from(initial)
       IN  IF initial_state.tag /= "Ok"
           THEN Ended("a_star", Panic, <<>>, <<>>) /\ NoIteration
           ELSE LET map == hashmap_insert(<<>>, initial)
                    results == get_child_states(initial_state.val)
                IN  IF results.tag /= "Ok" \/ AnyFaulty(results.val)
                    THEN Ended("a_star", Panic, <<>>, map) /\ RootIteration(initial_state.val)
                    ELSE LET q == a_star_queue_initial(Unwrapped(results.val), 1, <<>>, map)
                         IN  /\ pc' = "running"
                             /\ frontier' = q.frontier
                             /\ visited' = q.visited
                             /\ solution' = None
                             /\ RootIteration(initial_state.val)
                             /\ finished' = finished
    /\ UNCHANGED <<build, initial, unitVars>>

\* One iteration of the loop.
a_star_step ==
    /\ driver = 1 /\ pc = "running"
    /\ IF frontier = <<>>
       THEN Ended("a_star", None, frontier, visited) /\ UNCHANGED history
       ELSE LET state_to_visit == heap_pop(frontier).item
                rest == heap_pop(frontier).data
            IN  IF is_solution(state_to_visit)
                THEN Ended("a_star", Some(state_to_visit), rest, visited)
                     /\ LoopIteration(state_to_visit, FALSE, rest)
                ELSE IF is_game_over(state_to_visit)
                THEN Continue(rest, visited) /\ LoopIteration(state_to_visit, FALSE, rest)
                ELSE LET results == get_child_states(state_to_visit)
                     IN  IF results.tag /= "Ok" \/ AnyFaulty(results.val)
                         THEN Ended("a_star", Panic, rest, visited)
                              /\ LoopIteration(state_to_visit, TRUE, rest)
                         ELSE LET q == a_star_queue_children(Unwrapped(results.val), 1, rest, visited)
                              IN  Continue(q.frontier, q.visited)
                                  /\ LoopIteration(state_to_visit, TRUE, rest)
    /\ UNCHANGED <<build, initial, driver, unitVars>>

(***************************************************************************)
(* src/src/bin/dfs.rs                                                      *)
(***************************************************************************)
RECURSIVE dfs_queue_initial(_, _, _, _)
\* The for_each over the root's children: every child is pushed and its key inserted.
dfs_queue_initial(children, i, fr, map) ==
    IF i > Len(children) THEN [frontier |-> fr, visited |-> map]
    ELSE dfs_queue_initial(children, i + 1, push_front(fr, children[i]),
                              hashmap_insert(map, WorldState_into_string(children[i])))

RECURSIVE dfs_queue_children(_, _, _, _)
\* The for loop over a popped state's children: a child whose key is already
\* queued is skipped, any other is pushed and its key inserted.
dfs_queue_children(children, i, fr, map) ==
    IF i > Len(children) THEN [frontier |-> fr, visited |-> map]
    ELSE IF contains_key(map, WorldState_into_string(children[i]))
    THEN dfs_queue_children(children, i + 1, fr, map)
    ELSE dfs_queue_children(children, i + 1, push_front(fr, children[i]),
                               hashmap_insert(map, WorldState_into_string(children[i])))

\* main, up to the loop.
dfs_start ==
    /\ driver = 1 /\ pc = "done"
    /\ driver' = 2
    /\ LET initial_state == WorldState_try_from(initial)
       IN  IF initial_state.tag /= "Ok"
           THEN Ended("dfs", Panic, <<>>, <<>>) /\ NoIteration
           ELSE LET map == hashmap_insert(<<>>, initial)
                    results == get_child_states(initial_state.val)
                IN  IF results.tag /= "Ok" \/ AnyFaulty(results.val)
                    THEN Ended("dfs", Panic, <<>>, map) /\ RootIteration(initial_state.val)
                    ELSE LET q == dfs_queue_initial(Unwrapped(results.val), 1, <<>>, map)
                         IN  /\ pc' = "running"
                             /\ frontier' = q.frontier
                             /\ visited' = q.visited
                             /\ solution' = None
                             /\ RootIteration(initial_state.val)
                             /\ finished' = finished
    /\ UNCHANGED <<build, initial, unitVars>>

\* One iteration of the loop.
dfs_step ==
    /\ driver = 2 /\ pc = "running"
    /\ IF frontier = <<>>
       THEN Ended("dfs", None, frontier, visited) /\ UNCHANGED history
       ELSE LET state_to_visit == Head(frontier)
                rest == Tail(frontier)
            IN  IF is_solution(state_to_visit)
                THEN Ended("dfs", Some(state_to_visit), rest, visited)
                     /\ LoopIteration(state_to_visit, FALSE, rest)
                ELSE IF is_game_over(state_to_visit)
                THEN Continue(rest, visited) /\ LoopIteration(state_to_visit, FALSE, rest)
                ELSE LET results == get_child_states(state_to_visit)
                     IN  IF results.tag /= "Ok" \/ AnyFaulty(results.val)
                         THEN Ended("dfs", Panic, rest, visited)
                              /\ LoopIteration(state_to_visit, TRUE, rest)
                         ELSE LET q == dfs_queue_children(Unwrapped(results.val), 1, rest, visited)
                              IN  Continue(q.frontier, q.visited)
                                  /\ LoopIteration(state_to_visit, TRUE, rest)
    /\ UNCHANGED <<build, initial, driver, unitVars>>

(***************************************************************************)
(* src/src/bin/greedy_best_first_search.rs                                 *)
(***************************************************************************)
RECURSIVE greedy_queue_initial(_, _, _, _)
\* The for_each over the root's children: every child is pushed and its key inserted.
greedy_queue_initial(children, i, fr, map) ==
    IF i > Len(children) THEN [frontier |-> fr, visited |-> map]
    ELSE greedy_queue_initial(children, i + 1, push_front(fr, children[i]),
                              hashmap_insert(map, WorldState_into_string(children[i])))

RECURSIVE greedy_queue_children(_, _, _, _)
\* The for loop over a popped state's children: a child whose key is already
\* queued is skipped, any other is pushed and its key inserted.
greedy_queue_children(children, i, fr, map) ==
    IF i > Len(children) THEN [frontier |-> fr, visited |-> map]
    ELSE IF contains_key(map, WorldState_into_string(children[i]))
    THEN greedy_queue_children(children, i + 1, fr, map)
    ELSE greedy_queue_children(children, i + 1, push_front(fr, children[i]),
                               hashmap_insert(map, WorldState_into_string(children[i])))

\* main, up to the loop.
greedy_start ==
    /\ driver = 2 /\ pc = "done"
    /\ driver' = 3
    /\ LET initial_state == WorldState_try_from(initial)
       IN  IF initial_state.tag /= "Ok"
           THEN Ended("greedy_best_first_search", Panic, <<>>, <<>>) /\ NoIteration
           ELSE LET map == hashmap_insert(<<>>, initial)
                    results == get_child_states(initial_state.val)
                IN  IF results.tag /= "Ok" \/ AnyFaulty(results.val)
                    THEN Ended("greedy_best_first_search", Panic, <<>>, map) /\ RootIteration(initial_state.val)
                    ELSE LET q == greedy_queue_initial(sort_by_heuristic_desc(Unwrapped(results.val)), 1, <<>>, map)
                         IN  /\ pc' = "running"
                             /\ frontier' = q.frontier
                             /\ visited' = q.visited
                             /\ solution' = None
                             /\ RootIteration(initial_state.val)
                             /\ finished' = finished
    /\ UNCHANGED <<build, initial, unitVars>>

\* One iteration of the loop.
greedy_step ==
    /\ driver = 3 /\ pc = "running"
    /\ IF frontier = <<>>
       THEN Ended("greedy_best_first_search", None, frontier, visited) /\ UNCHANGED history
       ELSE LET state_to_visit == Head(frontier)
                rest == Tail(frontier)
            IN  IF is_solution(state_to_visit)
                THEN Ended("greedy_best_first_search", Some(state_to_visit), rest, visited)
                     /\ LoopIteration(state_to_visit, FALSE, rest)
                ELSE IF is_game_over(state_to_visit)
                THEN Continue(rest, visited) /\ LoopIteration(state_to_visit, FALSE, rest)
                ELSE LET results == get_child_states(state_to_visit)
                     IN  IF results.tag /= "Ok" \/ AnyFaulty(results.val)
                         THEN Ended("greedy_best_first_search", Panic, rest, visited)
                              /\ LoopIteration(state_to_visit, TRUE, rest)
                         ELSE LET q == greedy_queue_children(sort_by_heuristic_desc(Unwrapped(results.val)), 1, rest, visited)
                              IN  Continue(q.frontier, q.visited)
                                  /\ LoopIteration(state_to_visit, TRUE, rest)
    /\ UNCHANGED <<build, initial, driver, unitVars>>

(***************************************************************************)
(* src/src/canibals/solutions/bfs.rs                                       *)
(***************************************************************************)
RECURSIVE run_bfs_queue_initial(_, _, _, _)
\* The for_each over the root's children: every child is pushed; no key is recorded.
run_bfs_queue_initial(children, i, fr, queued) ==
    IF i > Len(children) THEN [frontier |-> fr, visited |-> queued]
    ELSE run_bfs_queue_initial(children, i + 1, push_back(fr, children[i]), queued)

RECURSIVE run_bfs_queue_children(_, _, _, _)
\* The for loop over a popped state's children: a child whose key is queued, or
\* that is game over, is skipped; any other is pushed and its key appended.
run_bfs_queue_children(children, i, fr, queued) ==
    IF i > Len(children) THEN [frontier |-> fr, visited |-> queued]
    ELSE IF vec_contains(queued, legacy_WorldState_into_string(children[i]))
    THEN run_bfs_queue_children(children, i + 1, fr, queued)
    ELSE IF legacy_is_game_over(children[i])
    THEN run_bfs_queue_children(children, i + 1, fr, queued)
    ELSE run_bfs_queue_children(children, i + 1, push_back(fr, children[i]),
                               Append(queued, legacy_WorldState_into_string(children[i])))

\* run_bfs, up to the loop.
run_bfs_start ==
    /\ driver = 3 /\ pc = "done"
    /\ driver' = 4
    /\ LET initial_state == legacy_WorldState_try_from(initial)
       IN  IF initial_state.tag /= "Ok"
           THEN Ended("run_bfs", Panic, <<>>, <<>>) /\ NoIteration
           ELSE LET queued == <<>>
                    results == legacy_get_child_states(initial_state.val)
                IN  IF results.tag /= "Ok" \/ AnyFaulty(results.val)
                    THEN Ended("run_bfs", Panic, <<>>, queued) /\ RootIteration(initial_state.val)
                    ELSE LET q == run_bfs_queue_initial(Unwrapped(results.val), 1, <<>>, queued)
                         IN  /\ pc' = "running"
                             /\ frontier' = q.frontier
                             /\ visited' = q.visited
                             /\ solution' = None
                             /\ RootIteration(initial_state.val)
                             /\ finished' = finished
    /\ UNCHANGED <<build, initial, unitVars>>

\* One iteration of the loop.
run_bfs_step ==
    /\ driver = 4 /\ pc = "running"
    /\ IF frontier = <<>>
       THEN Ended("run_bfs", None, frontier, visited) /\ UNCHANGED history
       ELSE LET state_to_visit == Head(frontier)
                rest == Tail(frontier)
            IN  IF legacy_is_solution(state_to_visit)
                THEN Ended("run_bfs", Some(state_to_visit), rest, visited)
                     /\ LoopIteration(state_to_visit, FALSE, rest)
                ELSE IF legacy_is_game_over(state_to_visit)
                THEN Continue(rest, visited) /\ LoopIteration(state_to_visit, FALSE, rest)
                ELSE LET results == legacy_get_child_states(state_to_visit)
                     IN  IF results.tag /= "Ok" \/ AnyFaulty(results.val)
                         THEN Ended("run_bfs", Panic, rest, visited)
                              /\ LoopIteration(state_to_visit, TRUE, rest)
                         ELSE LET q == run_bfs_queue_children(Unwrapped(results.val), 1,
                                                            rest, visited)
                              IN  Continue(q.frontier, q.visited)
                                  /\ LoopIteration(state_to_visit, TRUE, rest)
    /\ UNCHANGED <<build, initial, driver, unitVars>>

(***************************************************************************)
(* src/src/canibals/solutions/dfs.rs                                       *)
(***************************************************************************)
RECURSIVE run_dfs_queue_initial(_, _, _, _)
\* The for_each over the root's children: every child is pushed and its key appended.
run_dfs_queue_initial(children, i, fr, queued) ==
    IF i > Len(children) THEN [frontier |-> fr, visited |-> queued]
    ELSE run_dfs_queue_initial(children, i + 1, push_front(fr, children[i]),
                              Append(queued, legacy_WorldState_into_string(children[i])))

RECURSIVE run_dfs_queue_children(_, _, _, _)
\* The for loop over a popped state's children: a child whose key is queued, or
\* that is game over, is skipped; any other is pushed and its key appended.
run_dfs_queue_children(children, i, fr, queued) ==
    IF i > Len(children) THEN [frontier |-> fr, visited |-> queued]
    ELSE IF vec_contains(queued, legacy_WorldState_into_string(children[i]))
    THEN run_dfs_queue_children(children, i + 1, fr, queued)
    ELSE IF legacy_is_game_over(children[i])
    THEN run_dfs_queue_children(children, i + 1, fr, queued)
    ELSE run_dfs_queue_children(children, i + 1, push_front(fr, children[i]),
                               Append(queued, legacy_WorldState_into_string(children[i])))

\* run_dfs, up to the loop.
run_dfs_start ==
    /\ driver = 4 /\ pc = "done"
    /\ driver' = 5
    /\ LET initial_state == legacy_WorldState_try_from(initial)
       IN  IF initial_state.tag /= "Ok"
           THEN Ended("run_dfs", Panic, <<>>, <<>>) /\ NoIteration
           ELSE LET queued == <<initial>>
                    results == legacy_get_child_states(initial_state.val)
                IN  IF results.tag /= "Ok" \/ AnyFaulty(results.val)
                    THEN Ended("run_dfs", Panic, <<>>, queued) /\ RootIteration(initial_state.val)
                    ELSE LET q == run_dfs_queue_initial(Unwrapped(results.val), 1, <<>>, queued)
                         IN  /\ pc' = "running"
                             /\ frontier' = q.frontier
                             /\ visited' = q.visited
                             /\ solution' = None
                             /\ RootIteration(initial_state.val)
                             /\ finished' = finished
    /\ UNCHANGED <<build, initial, unitVars>>

\* One iteration of the loop.
run_dfs_step ==
    /\ driver = 5 /\ pc = "running"
    /\ IF frontier = <<>>
       THEN Ended("run_dfs", None, frontier, visited) /\ UNCHANGED history
       ELSE LET state_to_visit == Head(frontier)
                rest == Tail(frontier)
            IN  IF legacy_is_solution(state_to_visit)
                THEN Ended("run_dfs", Some(state_to_visit), rest, visited)
                     /\ LoopIteration(state_to_visit, FALSE, rest)
                ELSE IF legacy_is_game_over(state_to_visit)
                THEN Continue(rest, visited) /\ LoopIteration(state_to_visit, FALSE, rest)
                ELSE LET results == legacy_get_child_states(state_to_visit)
                     IN  IF results.tag /= "Ok" \/ AnyFaulty(results.val)
                         THEN Ended("run_dfs", Panic, rest, visited)
                              /\ LoopIteration(state_to_visit, TRUE, rest)
                         ELSE LET q == run_dfs_queue_children(Unwrapped(results.val), 1,
                                                            rest, visited)
                              IN  Continue(q.frontier, q.visited)
                                  /\ LoopIteration(state_to_visit, TRUE, rest)
    /\ UNCHANGED <<build, initial, driver, unitVars>>

Next ==
    \/ a_star_start
    \/ a_star_step
    \/ dfs_start
    \/ dfs_step
    \/ greedy_start
    \/ greedy_step
    \/ run_bfs_start
    \/ run_bfs_step
    \/ run_dfs_start
    \/ run_dfs_step

Spec == Init /\ [][Next]_vars

\* The last program has returned: no start-up and no loop iteration is left.
Halted == driver = 5 /\ pc = "done"

\* The programs are sequential and nothing stops them: a start-up or a loop
\* iteration that can be made is made.  This is weak fairness of Next,
\* WF_vars(Next), written out with the position at which Next is disabled.
SpecFair == Spec /\ ([]<>Halted \/ []<><<Next>>_vars)

(***************************************************************************)
(* Valid states: the counts of each type sum (as numbers) to 3             *)
(***************************************************************************)
IsValid(ws) ==
    /\ ws.left_state.cannibals + ws.right_state.cannibals = 3
    /\ ws.left_state.missionaries + ws.right_state.missionaries = 3

BoatSideOf(ws) == IF ws.boat_side = "LeftSide" THEN ws.left_state ELSE ws.right_state

\* The left-side counts and boat side of a valid state range over 4 x 4 x 2 = 32 cases.
Range(seq) == {seq[i] : i \in 1..Len(seq)}

(***************************************************************************)
(* Claims about the state model (checked under SpecUnit)                   *)
(***************************************************************************)
\* The WorldState values that exist in the current state of a run: the receiver,
\* the Ok elements of a returned Vec<WorldStateResult>, the frontier entries.
OkStatesHere ==
    (IF self /= NoState THEN {self} ELSE {})
    \cup (IF op = "get_child_states" /\ ret.tag = "Ok"
          THEN {ret.val[i].val : i \in {j \in 1..Len(ret.val) : ret.val[j].tag = "Ok"}}
          ELSE {})
    \cup Range(frontier)

\* C1: every WorldState that exists as an Ok value (built by WorldState::new or by
\* get_child_states) has left.cannibals + right.cannibals = 3 and
\* left.missionaries + right.missionaries = 3.
C1_OkStatesHaveTotals == \A ws \in OkStatesHere : IsValid(ws)

\* C2: WorldState::new returns Err(ImpossibleNumberOfCannibals(t)), t the cannibal
\* total, whenever that total is not 3; Err(ImpossibleNumberOfMissionaries(t)), t the
\* missionary total, when the cannibal total is 3 and the missionary total is not;
\* and otherwise Ok with exactly the counts and boat side passed in.
C2_NewReturnsByTotals ==
    op = "new" =>
        LET can == input.l_c + input.r_c
            mis == input.l_m + input.r_m
        IN  IF can /= 3 THEN ret = Err("ImpossibleNumberOfCannibals", can)
            ELSE IF mis /= 3 THEN ret = Err("ImpossibleNumberOfMissionaries", mis)
            ELSE /\ ret.tag = "Ok"
                 /\ ret.val.left_state = SideState_new(input.l_c, input.l_m)
                 /\ ret.val.right_state = SideState_new(input.r_c, input.r_m)
                 /\ ret.val.boat_side = input.boat

\* C3: for every valid WorldState s, every successor returned by
\* s.get_child_states() has the boat side opposite to that of s.
C3_ChildrenFlipBoat ==
    (op = "get_child_states" /\ IsValid(self) /\ ret.tag = "Ok") =>
        \A i \in 1..Len(ret.val) :
            ret.val[i].tag = "Ok" => ret.val[i].val.boat_side /= self.boat_side

C3_Witness ==
    /\ op = "get_child_states" /\ IsValid(self) /\ ret.tag = "Ok"
    /\ self.boat_side = "RightSide"
    /\ Len(ret.val) = 5
    /\ \A i \in 1..5 : ret.val[i].tag = "Ok" /\ ret.val[i].val.boat_side = "LeftSide"

\* C4: for every valid WorldState s, every element of s.get_child_states() is Ok
\* and no u8 subtraction underflows: every proposed move (a, b) has
\* a <= cannibals and b <= missionaries on the boat's side.
C4_ChildrenOkNoUnderflow ==
    (op = "get_child_states" /\ IsValid(self)) =>
        /\ ret.tag = "Ok"
        /\ \A i \in 1..Len(ret.val) : ret.val[i].tag = "Ok" /\ IsValid(ret.val[i].val)
        /\ \A mv \in Range(get_all_send_combinations(BoatSideOf(self))) :
              mv[1] <= BoatSideOf(self).cannibals /\ mv[2] <= BoatSideOf(self).missionaries

C4_Witness ==
    /\ op = "get_child_states" /\ IsValid(self) /\ ret.tag = "Ok"
    /\ self.boat_side = "LeftSide"
    /\ self.left_state = SideState_new(1, 3)
    /\ Len(ret.val) = 4
    /\ \A i \in 1..4 : ret.val[i].tag = "Ok"

\* The moves the puzzle allows from a side: one or two people, no more than are there.
ReferenceSends(c, m) ==
    {mv \in (0..2) \X (0..2) : mv[1] + mv[2] >= 1 /\ mv[1] + mv[2] <= 2
                               /\ mv[1] <= c /\ mv[2] <= m}

\* C5: for every side (c, m) with c and m in 0..3, the pairs returned by
\* get_all_send_combinations are exactly {(a, b) : 1 <= a + b <= 2, a <= c, b <= m},
\* no pair listed twice.
C5_SendsMatchReference ==
    (op = "get_all_send_combinations" /\ input.l_c \in 0..3 /\ input.l_m \in 0..3) =>
        /\ Range(ret.val) = ReferenceSends(input.l_c, input.l_m)
        /\ Cardinality(Range(ret.val)) = Len(ret.val)

\* C6: for every valid WorldState, is_game_over() is true exactly when on the left
\* or on the right side cannibals > missionaries > 0, whatever the boat side.
C6_GameOverIffOutnumbered ==
    (op = "is_game_over" /\ IsValid(self)) =>
        (ret.val <=>
            \/ (self.left_state.cannibals > self.left_state.missionaries
                /\ self.left_state.missionaries > 0)
            \/ (self.right_state.cannibals > self.right_state.missionaries
                /\ self.right_state.missionaries > 0))

C6_Witness ==
    /\ op = "is_game_over" /\ IsValid(self)
    /\ self.left_state = SideState_new(0, 1)
    /\ self.right_state = SideState_new(3, 2)
    /\ ret = Ok(TRUE)

\* C7: for every valid WorldState, is_solution() is true whenever the left
\* missionary count is 3 and the right one 0, whatever the boat side and the
\* cannibals, and false for every valid state with fewer than 3 missionaries left.
C7_SolutionIffMissionariesLeft ==
    (op = "is_solution" /\ IsValid(self)) =>
        /\ (self.left_state.missionaries = 3 /\ self.right_state.missionaries = 0)
              => ret = Ok(TRUE)
        /\ self.left_state.missionaries < 3 => ret = Ok(FALSE)

C7_Witness ==
    /\ op = "is_solution" /\ IsValid(self)
    /\ self.left_state = SideState_new(1, 3)
    /\ self.right_state = SideState_new(2, 0)
    /\ self.boat_side = "RightSide"
    /\ ret = Ok(TRUE)

(***************************************************************************)
(* Claims about the search runs (checked under Spec)                       *)
(***************************************************************************)
HasRun(program) == \E i \in 1..Len(finished) : finished[i].program = program
Outcome(program) ==
    finished[CHOOSE i \in 1..Len(finished) : finished[i].program = program].solution

\* The number of steps the programs print: the step-by-step vector's length minus one.
n_of_steps(ws) == Len(get_step_by_step_vec(ws)) - 1
legacy_n_of_steps(ws) == Len(legacy_get_step_by_step_vec(ws)) - 1

\* A configuration: the counts and the boat side, without provenance.
Config(ws) == [left_state |-> ws.left_state, right_state |-> ws.right_state,
               boat_side |-> ws.boat_side, backtrack |-> ""]

\* The configurations one move away that are not failures.
SafeSuccessors(cfg) ==
    LET results == get_child_states(cfg)
    IN  IF results.tag /= "Ok" THEN {}
        ELSE {Config(results.val[i].val) :
                i \in {j \in 1..Len(results.val) :
                         results.val[j].tag = "Ok" /\ ~is_game_over(results.val[j].val)}}

RECURSIVE ShortestFrom(_, _, _)
\* Breadth-first layers: the least number of moves from the layer to a goal
\* through non-failure configurations, -1 when there is none.
ShortestFrom(layer, seen, d) ==
    IF \E cfg \in layer : is_solution(cfg) THEN d
    ELSE LET next == UNION {SafeSuccessors(cfg) : cfg \in layer} \ seen
         IN  IF next = {} THEN -1 ELSE ShortestFrom(next, seen \cup next, d + 1)

\* The root is not tested itself: the path has at least one move.
ShortestSolution(text) ==
    LET root == Config(WorldState_try_from(text).val)
        first == SafeSuccessors(root)
    IN  IF first = {} THEN -1 ELSE ShortestFrom(first, first \cup {root}, 1)

\* C8 (as claimed): for "0 0 3 3 right" the solution returned by run_bfs and the
\* solution returned by A* each have exactly 11 moves.
C8_BfsAndAStarElevenMoves ==
    initial = INITIAL_STATE =>
        /\ HasRun("a_star") =>
              /\ Outcome("a_star").tag = "Some"
              /\ n_of_steps(Outcome("a_star").val) = 11
        /\ HasRun("run_bfs") =>
              /\ Outcome("run_bfs").tag = "Some"
              /\ legacy_n_of_steps(Outcome("run_bfs").val) = 11

\* C8 (amended): for "0 0 3 3 right" the solution returned by A* has exactly 7
\* moves, and run_bfs returns no solution: it ends not-found in a release build
\* and panics in a debug build.
C8_AStarSevenMovesBfsNone ==
    initial = INITIAL_STATE =>
        /\ HasRun("a_star") =>
              /\ Outcome("a_star").tag = "Some"
              /\ is_solution(Outcome("a_star").val)
              /\ n_of_steps(Outcome("a_star").val) = 7
        /\ HasRun("run_bfs") =>
              Outcome("run_bfs") = IF build = "debug" THEN Panic ELSE None

C8_Witness ==
    /\ initial = INITIAL_STATE
    /\ HasRun("a_star") /\ Outcome("a_star").tag = "Some"
    /\ HasRun("run_bfs") /\ Outcome("run_bfs") = None

\* C9: for "0 0 3 3 right" the number of moves of the solution returned by A* is
\* no greater than that returned by the DFS driver and by the greedy driver, and
\* equals the length of a shortest path from the root to a goal state through
\* non-failure states.
C9_AStarMinimal ==
    (initial = INITIAL_STATE /\ HasRun("a_star") /\ HasRun("dfs")
     /\ HasRun("greedy_best_first_search")) =>
        /\ Outcome("a_star").tag = "Some"
        /\ Outcome("dfs").tag = "Some"
        /\ Outcome("greedy_best_first_search").tag = "Some"
        /\ n_of_steps(Outcome("a_star").val) <= n_of_steps(Outcome("dfs").val)
        /\ n_of_steps(Outcome("a_star").val)
              <= n_of_steps(Outcome("greedy_best_first_search").val)
        /\ n_of_steps(Outcome("a_star").val) = ShortestSolution(initial)

C9_Witness ==
    /\ initial = INITIAL_STATE
    /\ HasRun("a_star") /\ HasRun("dfs") /\ HasRun("greedy_best_first_search")
    /\ Outcome("a_star").tag = "Some"
    /\ Outcome("dfs").tag = "Some"
    /\ Outcome("greedy_best_first_search").tag = "Some"

\* C10: run_bfs started on "0 0 3 3 right" ends by returning a goal state, and the
\* path to it has the minimum number of moves among all move sequences from the
\* root to a goal state through non-failure states.
C10_BfsReturnsShortest ==
    (initial = INITIAL_STATE /\ HasRun("run_bfs")) =>
        /\ Outcome("run_bfs").tag = "Some"
        /\ legacy_is_solution(Outcome("run_bfs").val)
        /\ legacy_n_of_steps(Outcome("run_bfs").val) = ShortestSolution(initial)

(***************************************************************************)
(* Claims about what the drivers return and schedule (checked under Spec)  *)
(***************************************************************************)
BinPrograms == {"a_star", "dfs", "greedy_best_first_search"}

\* Cannibals outnumber the missionaries present on one of the sides.
Outnumbered(ws) ==
    \/ ws.left_state.cannibals > ws.left_state.missionaries /\ ws.left_state.missionaries > 0
    \/ ws.right_state.cannibals > ws.right_state.missionaries /\ ws.right_state.missionaries > 0

\* The root state the programs parse from the initial text.
Root == WorldState_try_from(initial).val

IsPrefixVec(a, b) == Len(a) <= Len(b) /\ SubSeq(b, 1, Len(a)) = a

RECURSIVE PathFrom(_, _)
\* The states from cur to target, each one a successor get_child_states returns
\* for the one before it, chosen by the moves recorded in target's backtrack;
\* the empty sequence when no such chain of successors ends in target.
PathFrom(cur, target) ==
    IF cur = target THEN <<cur>>
    ELSE LET results == get_child_states(cur)
             next == IF results.tag /= "Ok" THEN {}
                     ELSE {results.val[i].val :
                             i \in {j \in 1..Len(results.val) :
                                      /\ results.val[j].tag = "Ok"
                                      /\ IsPrefixVec(get_step_by_step_vec(results.val[j].val),
                                                     get_step_by_step_vec(target))}}
         IN  IF next = {} THEN <<>>
             ELSE LET tail == PathFrom(CHOOSE c \in next : TRUE, target)
                  IN  IF tail = <<>> THEN <<>> ELSE <<cur>> \o tail

\* C11: when a_star, dfs or greedy_best_first_search ends with Some(state), the
\* state has all three missionaries on the left, and the states from the root to
\* it, linked one get_child_states move at a time, are all valid and none has a
\* side where the cannibals outnumber the missionaries (the root the programs
\* start from is such a state and is taken as one).
C11_SolutionPathIsSafe ==
    \A p \in BinPrograms :
        (HasRun(p) /\ Outcome(p).tag = "Some" /\ IsValid(Root) /\ ~Outnumbered(Root)) =>
            LET path == PathFrom(Root, Outcome(p).val)
            IN  /\ path /= <<>>
                /\ path[Len(path)].left_state.missionaries = 3
                /\ \A i \in 1..Len(path) : IsValid(path[i]) /\ ~Outnumbered(path[i])

C11_Witness ==
    /\ initial = INITIAL_STATE
    /\ \A p \in BinPrograms :
          /\ HasRun(p) /\ Outcome(p).tag = "Some"
          /\ Len(PathFrom(Root, Outcome(p).val)) = 8

\* The counts written in the initial text do not add up to 3 cannibals and 3 missionaries.
WrongTotals(text) ==
    LET f == try_from_fields(text)
    IN  /\ f.tag = "Ok"
        /\ \/ f.val.left_state.cannibals + f.val.right_state.cannibals /= 3
           \/ f.val.left_state.missionaries + f.val.right_state.missionaries /= 3

\* C13: an initial text whose totals are not 3 and 3 makes WorldState::try_from
\* return ImpossibleNumberOfCannibals or ImpossibleNumberOfMissionaries, and a
\* program started on it stops before its loop with nothing in the visited set
\* and nothing on the frontier.
C13_WrongTotalsStopDriver ==
    (WrongTotals(initial) /\ driver >= 1) =>
        /\ WorldState_try_from(initial).tag = "Err"
        /\ WorldState_try_from(initial).kind
              \in {"ImpossibleNumberOfCannibals", "ImpossibleNumberOfMissionaries"}
        /\ pc = "done" /\ solution = Panic
        /\ frontier = <<>> /\ visited = <<>> /\ history = <<>>

\* The root state run_bfs and run_dfs parse from the initial text.
LegacyRoot == legacy_WorldState_try_from(initial).val

\* The root's key and the key of every frontier entry are in queued_states.
KeysQueued ==
    /\ vec_contains(visited, legacy_WorldState_into_string(LegacyRoot))
    /\ \A i \in 1..Len(frontier) :
          vec_contains(visited, legacy_WorldState_into_string(frontier[i]))

\* C14: while run_bfs or run_dfs is in its loop (from before the first pop on),
\* the root's canonical key is in queued_states and so is the key of every
\* entry of the frontier.
C14_FrontierKeysQueued == (driver \in {4, 5} /\ pc = "running") => KeysQueued

\* The entries pushed so far in the run of the program running.
PushedEntries == UNION {history[i].pushed : i \in 1..Len(history)}

RECURSIVE PushCount(_)
\* The number of pushes of the first n iterations.
PushCount(n) == IF n = 0 THEN 0 ELSE PushCount(n - 1) + Cardinality(history[n].pushed)

\* C15: in a run of a_star, dfs or greedy_best_first_search no canonical key is
\* pushed onto the frontier twice, the root's key is never pushed, and no two
\* iterations (the root's expansion included) work on states of the same key.
C15_NoKeyPushedTwice ==
    (driver \in 1..3 /\ history /= <<>>) =>
        /\ Cardinality({WorldState_into_string(ws) : ws \in PushedEntries})
              = PushCount(Len(history))
        /\ \A ws \in PushedEntries : WorldState_into_string(ws) /= WorldState_into_string(Root)
        /\ \A i, j \in 1..Len(history) :
              i /= j => WorldState_into_string(history[i].state)
                          /= WorldState_into_string(history[j].state)

\* A* has ended on "0 0 3 3 right" after 18 pushes, and one of its iterations
\* skipped a successor whose key was already queued.
C15_Witness ==
    /\ initial = INITIAL_STATE /\ driver = 1 /\ pc = "done"
    /\ PushCount(Len(history)) = 18
    /\ \E i \in 1..Len(history) :
          /\ history[i].popped /\ history[i].expanded
          /\ Cardinality(history[i].pushed) < Len(get_child_states(history[i].state).val)

\* The key is that of a state with a side where the cannibals outnumber the missionaries.
KeyOfFailure(key) ==
    LET f == try_from_fields(key)
    IN  f.tag = "Ok" /\ Outnumbered(f.val)

ChildrenOf(ws) ==
    LET results == IF driver \in {4, 5} THEN legacy_get_child_states(ws)
                   ELSE get_child_states(ws)
    IN  IF results.tag /= "Ok" THEN {}
        ELSE {results.val[i].val : i \in {j \in 1..Len(results.val) : results.val[j].tag = "Ok"}}

\* C17: in all five programs get_child_states is not called on a popped state
\* that has a side where the cannibals outnumber the missionaries, the iteration
\* that popped it pushes nothing, and every entry ever pushed is a successor of
\* the state its iteration worked on.
C17_FailureNeverExpanded ==
    \A i \in 1..Len(history) :
        /\ (history[i].popped /\ Outnumbered(history[i].state)) =>
              ~history[i].expanded /\ history[i].pushed = {}
        /\ history[i].pushed /= {} =>
              history[i].expanded /\ history[i].pushed \subseteq ChildrenOf(history[i].state)

\* An iteration has popped a game-over state while other entries were pending.
C17_Witness ==
    /\ history /= <<>> /\ frontier /= <<>> /\ pc = "running"
    /\ history[Len(history)].popped
    /\ Outnumbered(history[Len(history)].state)
    /\ ChildrenOf(history[Len(history)].state) /= {}

(***************************************************************************)
(* Claims about the order of the pops (checked under Spec)                 *)
(***************************************************************************)
\* The state the step being taken has popped.
PoppedNow == history'[Len(history')].state

\* C18: greedy_best_first_search started on "0 0 3 3 right": every pop returns
\* an entry whose get_heuristic() is the smallest among the entries that were
\* in the frontier when it was popped.
C18_GreedyPopsLeastHeuristic ==
    [][(initial = INITIAL_STATE /\ driver = 3 /\ pc = "running" /\ frontier /= <<>>) =>
          \A i \in 1..Len(frontier) :
              get_heuristic(PoppedNow).val <= get_heuristic(frontier[i]).val]_vars

\* The greedy program has popped 15 entries on "0 0 3 3 right", the last one the
\* solution, leaving entries of greater heuristic pending.
C18_Witness ==
    /\ initial = INITIAL_STATE /\ driver = 3 /\ pc = "done"
    /\ solution.tag = "Some"
    /\ Len(history) = 16
    /\ \E i \in 1..Len(frontier) :
          get_heuristic(frontier[i]).val > get_heuristic(solution.val).val

\* C19: a_star started on "0 0 3 3 right": every pop returns an entry whose
\* heuristic plus depth (the number of moves from the root) is the smallest
\* among the entries that were in the frontier when it was popped.
C19_AStarPopsLeastCost ==
    [][(initial = INITIAL_STATE /\ driver = 1 /\ pc = "running" /\ frontier /= <<>>) =>
          \A i \in 1..Len(frontier) :
              get_heuristic(PoppedNow).val + n_of_steps(PoppedNow)
                  <= get_heuristic(frontier[i]).val + n_of_steps(frontier[i])]_vars

(***************************************************************************)
(* Claims about the heap (checked under SpecHeap)                          *)
(***************************************************************************)
\* How many entries of the sequence are the state.
Count(seq, ws) == Cardinality({i \in 1..Len(seq) : seq[i] = ws})

\* C20: whatever sequence of states is pushed into the heap, the pops return
\* entries in non-decreasing order of get_heuristic(), each pop returns an
\* entry whose heuristic is no greater than that of any entry still in the
\* heap, and the entries popped together with those still in the heap are
\* the entries pushed, each as many times as it was pushed (so that popping
\* until empty returns every pushed entry exactly once).
C20_HeapPopsInOrder ==
    /\ \A i, j \in 1..Len(Pops) :
          i < j => get_heuristic(Pops[i].state).val <= get_heuristic(Pops[j].state).val
    /\ Pops /= <<>> =>
          \A k \in 1..Len(frontier) :
              get_heuristic(Pops[Len(Pops)].state).val <= get_heuristic(frontier[k]).val
    /\ \A ws \in Range(input) :
          Count([i \in 1..Len(Pops) |-> Pops[i].state], ws) + Count(frontier, ws)
              = Count([i \in 1..Len(Pushes) |-> Pushes[i].state], ws)
    /\ [i \in 1..Len(Pushes) |-> Pushes[i].state] = SubSeq(input, 1, Len(Pushes))

\* The first five pushes of test_world_state_heap_wrapper_maintains_expected_order
\* (heuristics 3, 2, 0, 1, 0) have been made and the heap popped until empty.
C20_Witness ==
    /\ input = <<WorldState_try_from("0 0 3 3 right").val,
                 WorldState_try_from("1 1 2 2 right").val,
                 WorldState_try_from("2 3 1 0 right").val,
                 WorldState_try_from("2 2 1 1 right").val,
                 WorldState_try_from("0 3 3 0 right").val>>
    /\ frontier = <<>>
    /\ Len(Pops) = Len(input)

\* The iteration that pushed the entry, and the entry's place among the
\* successors that iteration got from get_child_states (pushed in that order).
PushedIn(e) == CHOOSE i \in 1..Len(history) : e \in history[i].pushed
PlaceOf(e) ==
    LET results == get_child_states(history[PushedIn(e)].state).val
    IN  CHOOSE j \in 1..Len(results) : results[j].tag = "Ok" /\ results[j].val = e

\* a was pushed after b.
PushedAfter(a, b) ==
    \/ PushedIn(a) > PushedIn(b)
    \/ PushedIn(a) = PushedIn(b) /\ PlaceOf(a) > PlaceOf(b)

\* C21: in every run of dfs, every pop returns the entry that was pushed last
\* among the entries that were in the frontier when it was popped.
C21_DfsPopsNewest ==
    [][(driver = 2 /\ pc = "running" /\ frontier /= <<>>) =>
          /\ \E k \in 1..Len(frontier) : frontier[k] = PoppedNow
          /\ \A k \in 1..Len(frontier) :
                frontier[k] = PoppedNow \/ PushedAfter(PoppedNow, frontier[k])]_vars

\* dfs on "0 0 3 3 right" has just popped an entry pushed by the iteration
\* before, while an entry pushed by the root's expansion is still pending.
C21_Witness ==
    /\ initial = INITIAL_STATE /\ driver = 2 /\ pc = "running"
    /\ Len(history) >= 3
    /\ history[Len(history)].popped
    /\ history[Len(history)].state \in history[Len(history) - 1].pushed
    /\ \E k \in 1..Len(frontier) : frontier[k] \in history[1].pushed

(***************************************************************************)
(* Claims about the reported path (checked under Spec)                     *)
(***************************************************************************)
\* The state whose expansion pushed the entry.
ParentOf(e) == history[PushedIn(e)].state

RECURSIVE DepthOf(_)
\* The number of moves that led from the root to the state in this run.
DepthOf(e) == IF e \notin PushedEntries THEN 0 ELSE DepthOf(ParentOf(e)) + 1

\* How many of a kind crossed to the side the boat went to, in u8 arithmetic.
Crossed(before, after) == (after - before) % 256

\* The description of the move that leads from parent to e.
MoveText(parent, e) ==
    LET to_left == e.boat_side = "LeftSide"
        there(ws) == IF to_left THEN ws.left_state ELSE ws.right_state
    IN  "send " \o ToString(Crossed(there(parent).cannibals, there(e).cannibals))
            \o " cannibals and "
            \o ToString(Crossed(there(parent).missionaries, there(e).missionaries))
            \o " missionaries to the " \o (IF to_left THEN "left" ELSE "right") \o " side"

RECURSIVE MovesTo(_)
\* The descriptions of the moves from the root to the state, first move first.
MovesTo(e) ==
    IF e \notin PushedEntries THEN <<>>
    ELSE Append(MovesTo(ParentOf(e)), MoveText(ParentOf(e), e))

RECURSIVE Hops(_)
\* The number of parent references between a legacy state and the root.
Hops(ws) == IF ws.backtrack.parent.tag = "Some" THEN Hops(ws.backtrack.parent.val) + 1 ELSE 0

\* C22: for a state reached from the root by k moves get_step_by_step_vec()
\* returns k + 1 elements, the root's description and then the descriptions of
\* the k moves in the order they were made, so the number of steps reported is
\* k; in the legacy model too, where the state is k parent references away
\* from the root.
C22_StepVectorIsPath ==
    (initial \in ValidTexts /\ history /= <<>>) =>
        /\ driver \in 1..3 =>
              \A e \in PushedEntries \cup {Root} :
                  LET vec == get_step_by_step_vec(e)
                  IN  /\ Len(vec) = DepthOf(e) + 1
                      /\ vec[1] = "root state"
                      /\ SubSeq(vec, 2, Len(vec)) = MovesTo(e)
                      /\ n_of_steps(e) = DepthOf(e)
        /\ driver \in {4, 5} =>
              \A e \in PushedEntries \cup {LegacyRoot} :
                  LET vec == legacy_get_step_by_step_vec(e)
                  IN  /\ Len(vec) = DepthOf(e) + 1
                      /\ vec[1] = legacy_display_root(LegacyRoot)
                      /\ SubSeq(vec, 2, Len(vec)) = MovesTo(e)
                      /\ legacy_n_of_steps(e) = DepthOf(e)
                      /\ Hops(e) = DepthOf(e)

\* A* has returned a state 7 moves from "0 0 3 3 right" and run_dfs has
\* pushed a state 4 moves from it.
C22_Witness ==
    /\ initial = INITIAL_STATE /\ driver = 5
    /\ HasRun("a_star") /\ Outcome("a_star").tag = "Some"
    /\ Len(get_step_by_step_vec(Outcome("a_star").val)) = 8
    /\ \E e \in PushedEntries :
          DepthOf(e) = 4 /\ Len(legacy_get_step_by_step_vec(e)) = 5

(***************************************************************************)
(* Claims about the texts (checked under SpecText)                         *)
(***************************************************************************)
Blank(ch) == ch \in {" ", "\t", "\n", "\r"}

RECURSIVE Runs(_)
\* The text cut into its maximal runs of whitespace and of other characters.
Runs(s) ==
    IF s = "" THEN <<>>
    ELSE LET n == CHOOSE k \in 1..Len(s) :
                    /\ \A i \in 1..k : Blank(Char(s, i)) = Blank(Char(s, 1))
                    /\ k = Len(s) \/ Blank(Char(s, k + 1)) /= Blank(Char(s, 1))
         IN  <<SubSeq(s, 1, n)>> \o Runs(SubSeq(s, n + 1, Len(s)))

\* The whitespace-separated tokens of the text.
Tokens(s) == SelectSeq(Runs(s), LAMBDA r : ~Blank(Char(r, 1)))

RECURSIVE JoinWithSpaces(_)
JoinWithSpaces(tokens) ==
    IF tokens = <<>> THEN ""
    ELSE IF Len(tokens) = 1 THEN tokens[1]
    ELSE tokens[1] \o " " \o JoinWithSpaces(Tail(tokens))

\* The text with every stretch of whitespace between tokens made one space and
\* the whitespace at the ends dropped.
Normalize(s) == JoinWithSpaces(Tokens(s))

IsCount(token) == \E n \in 0..3 : token = ToString(n)
CountOf(token) == CHOOSE n \in 0..3 : token = ToString(n)

\* Four counts and a side token, whitespace-separated, totals 3 and 3.
WellFormed(s) ==
    LET t == Tokens(s)
    IN  /\ Len(t) = 5
        /\ \A i \in 1..4 : IsCount(t[i])
        /\ t[5] \in {"left", "right"}
        /\ CountOf(t[1]) + CountOf(t[3]) = 3
        /\ CountOf(t[2]) + CountOf(t[4]) = 3

SpacesIn(run) == Cardinality({i \in 1..Len(run) : Char(run, i) = " "})

\* There is no space before the first token and exactly one space in every
\* stretch of whitespace between two tokens.
SingleSpaced(s) ==
    LET r == Runs(s)
    IN  \A i \in 1..Len(r) :
            Blank(Char(r[i], 1)) =>
                \/ i = 1 /\ SpacesIn(r[i]) = 0
                \/ i > 1 /\ i < Len(r) /\ SpacesIn(r[i]) = 1
                \/ i > 1 /\ i = Len(r)

\* The state has the counts and the side the tokens of the text give.
StateOfTokens(ws, s) ==
    LET t == Tokens(s)
    IN  /\ ws.left_state = SideState_new(CountOf(t[1]), CountOf(t[2]))
        /\ ws.right_state = SideState_new(CountOf(t[3]), CountOf(t[4]))
        /\ ws.boat_side = IF t[5] = "left" THEN "LeftSide" ELSE "RightSide"

\* The key of the parsed state is the normalized text, and parsing the key
\* gives the counts and the side of the state the key was made from.
RoundTrips ==
    /\ op = "into_string" => ret.val = Normalize(initial)
    /\ op = "key_try_from" => ret.tag = "Ok" /\ Config(ret.val) = Config(self)

\* C23 (as claimed): every text of four counts and a side token separated by
\* whitespace, totals 3 and 3, is parsed to a state whose key is the text with
\* its whitespace normalized to single spaces, and parsing the key of a valid
\* state gives a state with the same counts and boat side.
C23_RoundTrip ==
    WellFormed(initial) =>
        /\ op = "try_from" => ret.tag = "Ok" /\ StateOfTokens(ret.val, initial)
        /\ RoundTrips

\* C23 (amended): the round trip holds for the well-formed texts that have no
\* space before the first token and exactly one space character in each stretch
\* of whitespace between two tokens; every other well-formed text is rejected
\* with ParseFromStringError.
C23_RoundTripSingleSpaced ==
    WellFormed(initial) =>
        /\ op = "try_from" =>
              IF SingleSpaced(initial)
              THEN ret.tag = "Ok" /\ StateOfTokens(ret.val, initial)
              ELSE ret.tag = "Err" /\ ret.kind = "ParseFromStringError"
        /\ RoundTrips

\* "1 \t2 \t2 \t1 \tleft" has been parsed, the state turned into the key
\* "1 2 2 1 left" and the key parsed again.
C23_Witness ==
    /\ initial = FieldsText(1, 2, "left", " \t")
    /\ op = "key_try_from"
    /\ ret.tag = "Ok"
    /\ WorldState_into_string(self) = "1 2 2 1 left"

\* The token of a space-separated piece: the piece without the whitespace
\* around it.
TokenOf(piece) ==
    IF Tokens(piece) = <<>> THEN ""
    ELSE IF Len(Tokens(piece)) = 1 THEN Tokens(piece)[1]
    ELSE piece

\* The token is not a numeral: after an optional sign it is empty or has a
\* character that is not a digit.
NotANumber(token) ==
    LET body == IF Len(token) > 0 /\ Char(token, 1) \in {"+", "-"}
                THEN SubSeq(token, 2, Len(token)) ELSE token
    IN  body = "" \/ \E i \in 1..Len(body) : Char(body, i) \notin Digits

\* The three cases: fewer than 5 space-separated tokens; one of the first four
\* is not a number; the fifth is neither "left" nor "right".
TooFewTokens(s) == Len(Split(s, " ")) < 5
CountNotNumeric(s) ==
    ~TooFewTokens(s) /\ \E i \in 1..4 : NotANumber(TokenOf(Split(s, " ")[i]))
SideNotLiteral(s) ==
    ~TooFewTokens(s) /\ TokenOf(Split(s, " ")[5]) \notin {"left", "right"}

\* C24: WorldState::try_from returns ParseFromStringError and constructs no
\* state when the text has fewer than 5 space-separated tokens, when one of the
\* first four tokens is not a number, and when the fifth token is neither
\* "left" nor "right".
C24_ParseErrors ==
    (op = "try_from"
     /\ (TooFewTokens(initial) \/ CountNotNumeric(initial) \/ SideNotLiteral(initial))) =>
        /\ ret.tag = "Err"
        /\ ret.kind = "ParseFromStringError"
        /\ self = NoState

\* try_from has been called on a text whose counts are numbers and whose fifth
\* token is "up".
C24_Witness ==
    /\ initial = "0 0 3 3 up"
    /\ op = "try_from"
    /\ SideNotLiteral(initial) /\ ~CountNotNumeric(initial)
    /\ ret.tag = "Err"

(***************************************************************************)
(* Claims about the heuristic (checked under SpecUnit)                     *)
(***************************************************************************)
\* The least number of moves from the state to a goal state through
\* non-failure states (0 for a goal state), -1 when there is none.
MovesToGoal(ws) == ShortestFrom({Config(ws)}, {Config(ws)}, 0)

\* get_heuristic() has been called on a valid non-failure state from which a
\* goal state can be reached through non-failure states.
HeuristicOfSafeState ==
    /\ op = "get_heuristic"
    /\ IsValid(self) /\ ~Outnumbered(self)
    /\ MovesToGoal(self) >= 0

\* C25 (as claimed): for every valid non-failure state from which a goal is
\* reachable through non-failure states, get_heuristic() is at most the least
\* number of moves to a goal state.
C25_HeuristicAdmissible ==
    HeuristicOfSafeState => ret.tag = "Ok" /\ ret.val <= MovesToGoal(self)

\* C25 (amended): for every such state get_heuristic() is at most twice the
\* least number of moves to a goal state (a move brings at most two
\* missionaries to the left), and it can exceed that number: it is 2 for
\* "1 1 2 2 right", which is one move from a goal state.
C25_HeuristicWithinTwiceTheMoves ==
    HeuristicOfSafeState =>
        /\ ret.tag = "Ok"
        /\ ret.val <= 2 * MovesToGoal(self)
        /\ WorldState_into_string(self) = "1 1 2 2 right" =>
              ret.val = 2 /\ MovesToGoal(self) = 1

C25_Witness ==
    /\ HeuristicOfSafeState
    /\ WorldState_into_string(self) = "1 1 2 2 right"
    /\ ret = Ok(2)

\* The valid state with m missionaries on the left and everything else as in ws.
WithMissionariesLeft(ws, m) ==
    [ws EXCEPT !.left_state.missionaries = m, !.right_state.missionaries = 3 - m]

\* C26: for every valid WorldState get_heuristic() returns, without panicking,
\* 3 minus the number of missionaries on the left side: a value in 0..3, 3 for
\* "0 0 3 3 right", strictly smaller for a state with more missionaries on the
\* left, and 0 exactly when is_solution() is true.
C26_HeuristicIsMissionariesToCross ==
    (op = "get_heuristic" /\ IsValid(self)) =>
        /\ ret.tag = "Ok"
        /\ ret.val = 3 - self.left_state.missionaries
        /\ ret.val \in 0..3
        /\ WorldState_into_string(self) = "0 0 3 3 right" => ret.val = 3
        /\ \A m \in 0..3 :
              m > self.left_state.missionaries =>
                  /\ get_heuristic(WithMissionariesLeft(self, m)).tag = "Ok"
                  /\ get_heuristic(WithMissionariesLeft(self, m)).val < ret.val
        /\ ret.val = 0 <=> is_solution(self)

C26_Witness ==
    /\ op = "get_heuristic" /\ IsValid(self)
    /\ build = "debug"
    /\ self.left_state.missionaries = 3
    /\ ret = Ok(0)

(***************************************************************************)
(* Claims about the keys and the visited set (checked under Spec)          *)
(***************************************************************************)
\* The states the running program has built so far: the root and every
\* successor get_child_states returned to it, pushed or not.
Generated ==
    {Root} \cup UNION {ChildrenOf(history[i].state) :
                         i \in {j \in 1..Len(history) : history[j].expanded}}

\* The entries pushed before iteration i.
PushedBefore(i) == UNION {history[j].pushed : j \in 1..(i - 1)}

\* C27: two states built during a run of a_star, dfs or
\* greedy_best_first_search have the same key exactly when they have the same
\* counts and boat side, whatever their backtracks; and a successor of a popped
\* state is left out of the frontier exactly when its configuration is that of
\* the root or of an entry pushed earlier.
C27_KeyIsConfiguration ==
    (initial \in ValidTexts /\ driver \in 1..3 /\ history /= <<>>) =>
        /\ pc = "done" =>
              \A a, b \in Generated :
                  WorldState_into_string(a) = WorldState_into_string(b)
                      <=> Config(a) = Config(b)
        /\ LET i == Len(history)
           IN  (history[i].popped /\ history[i].expanded) =>
                   \A b \in ChildrenOf(history[i].state) :
                       b \notin history[i].pushed
                           <=> \E a \in {Root} \cup PushedBefore(i) : Config(a) = Config(b)

\* A* has ended on "0 0 3 3 right" having built two states of the same
\* configuration with different backtracks, and two states with the same
\* counts and different boat sides.
C27_Witness ==
    /\ initial = INITIAL_STATE /\ driver = 1 /\ pc = "done"
    /\ \E a, b \in Generated :
          /\ Config(a) = Config(b) /\ a.backtrack /= b.backtrack
          /\ WorldState_into_string(a) = WorldState_into_string(b)
    /\ \E a, b \in Generated :
          /\ a.left_state = b.left_state /\ a.boat_side /= b.boat_side
          /\ WorldState_into_string(a) /= WorldState_into_string(b)

(***************************************************************************)
(* Claims about termination (checked under SpecFair)                       *)
(***************************************************************************)
\* The program's loop has ended with a goal state or with an empty frontier.
LoopEnded(p) == HasRun(p) /\ Outcome(p).tag \in {"Some", "None"}

\* C28: from every valid initial state each of a_star, dfs and
\* greedy_best_first_search ends its loop, with Some(state) or with an empty
\* frontier, after at most 31 pops that push; a run holds at most 32 keys.
C28_BinDriversTerminate ==
    /\ [](initial \in ValidTexts /\ driver \in 1..3 =>
             /\ Len(visited) <= 32
             /\ PushCount(Len(history)) <= 31
             /\ Len(history) <= 32)
    /\ initial \in ValidTexts => <>(\A p \in BinPrograms : LoopEnded(p))

C28_Witness ==
    /\ initial \in ValidTexts
    /\ \A p \in BinPrograms : LoopEnded(p)
    /\ Outcome("dfs") = None
    /\ Outcome("a_star") = None

\* The configurations one move away in which no side has its missionaries
\* outnumbered.
SafeMoves(cfg) ==
    LET results == get_child_states(cfg)
    IN  IF results.tag /= "Ok" THEN {}
        ELSE {Config(results.val[i].val) :
                i \in {j \in 1..Len(results.val) :
                         results.val[j].tag = "Ok" /\ ~Outnumbered(results.val[j].val)}}

RECURSIVE SafelyReached(_, _)
\* seen, with every configuration that moves through non-failure
\* configurations lead to from the layer.
SafelyReached(layer, seen) ==
    LET next == UNION {SafeMoves(cfg) : cfg \in layer} \ seen
    IN  IF next = {} THEN seen ELSE SafelyReached(next, seen \cup next)

\* The goal configurations reached from the root by one or more moves through
\* non-failure configurations.  The root is not tested by the programs; when
\* it is itself a goal or a failure, the configurations counted are those
\* after it.
GoalsBeyond(root) ==
    {g \in SafelyReached({Config(root)}, {Config(root)}) \ {Config(root)} :
        g.left_state.missionaries = 3}

\* C29: a_star, dfs and greedy_best_first_search end with None only on an
\* empty frontier and only when no goal state is reachable from the root
\* through non-failure states; when one is reachable the run ends, and ends
\* with Some(goal state); all three end with a goal state for "0 0 3 3 right".
C29_NotFoundOnlyWhenUnreachable ==
    /\ [](initial \in ValidTexts =>
             /\ (driver \in 1..3 /\ pc = "done" /\ solution = None) => frontier = <<>>
             /\ \A p \in BinPrograms :
                    HasRun(p) =>
                        /\ Outcome(p).tag \in {"Some", "None"}
                        /\ Outcome(p) = None => GoalsBeyond(Root) = {}
                        /\ GoalsBeyond(Root) /= {} =>
                              /\ Outcome(p).tag = "Some"
                              /\ Config(Outcome(p).val) \in GoalsBeyond(Root)
                        /\ initial = INITIAL_STATE => Outcome(p).tag = "Some")
    /\ (initial \in ValidTexts /\ GoalsBeyond(Root) /= {}) =>
           <>(\A p \in BinPrograms : HasRun(p) /\ Outcome(p).tag = "Some")

\* greedy_best_first_search, the last of the three, has ended not-found on an
\* empty frontier from a root that is neither a goal nor a failure, and the
\* other two have ended not-found as well.
C29_Witness ==
    /\ initial \in ValidTexts
    /\ Root.left_state.missionaries /= 3 /\ ~Outnumbered(Root)
    /\ GoalsBeyond(Root) = {}
    /\ driver = 3 /\ pc = "done" /\ solution = None /\ frontier = <<>>
    /\ \A p \in BinPrograms : HasRun(p) /\ Outcome(p) = None

(***************************************************************************)
(* Claims about the visited set (checked under Spec)                       *)
(***************************************************************************)
\* The key the d-th program records for a state.
KeyIn(d, ws) ==
    IF d \in {4, 5} THEN legacy_WorldState_into_string(ws) ELSE WorldState_into_string(ws)

\* C30: in all five programs the visited set only grows during a run: a loop
\* iteration removes no key and keeps the keys' order, every key it adds is the
\* key of a state it pushes, the keys a run starts with are the root's key and
\* the keys of the root's successors it pushes, and there are never more than
\* 32 keys.
C30_VisitedOnlyGrows ==
    [][LET pushed == IF history' = history \/ history' = <<>> THEN {}
                     ELSE history'[Len(history')].pushed
           added == Range(visited') \ (IF driver' = driver THEN Range(visited) ELSE {})
       IN  /\ driver' = driver => IsPrefixVec(visited, visited')
           /\ added \subseteq {KeyIn(driver', e) : e \in pushed}
                               \cup (IF driver' = driver THEN {} ELSE {initial})
           /\ Len(visited') <= 32
           /\ Cardinality(Range(visited')) = Len(visited')]_vars

\* An iteration of a_star's loop on "0 0 3 3 right" has pushed successors when
\* ten keys or more were recorded, and their keys are the newest keys.
C30_Witness ==
    /\ initial = INITIAL_STATE /\ driver = 1 /\ pc = "running"
    /\ Len(history) >= 2 /\ Len(visited) >= 10
    /\ LET pushed == history[Len(history)].pushed
           n == Cardinality(pushed)
       IN  /\ n >= 1
           /\ {visited[i] : i \in (Len(visited) - n + 1)..Len(visited)}
                  = {KeyIn(driver, e) : e \in pushed}

(***************************************************************************)
(* Claims about what an iteration leaves alone (checked under Spec)        *)
(***************************************************************************)
\* after holds the entries of before, each as often, less one occurrence of
\* popped and with one occurrence more of each entry of extra.
KeepsOthers(before, popped, after, extra) ==
    \A ws \in Range(before) \cup Range(after) \cup extra :
        Count(after, ws) = Count(before, ws) - (IF ws = popped THEN 1 ELSE 0)
                                             + (IF ws \in extra THEN 1 ELSE 0)

\* C31: in a_star, dfs and greedy_best_first_search an iteration that pops a
\* state with a side where the cannibals outnumber the missionaries does not
\* expand it, leaves the visited set as it was and leaves the frontier with
\* the same entries (counts, boat side and backtrack) less the popped one, in
\* the same order in dfs and greedy; an iteration that expands a state works
\* on the entry as it was in the frontier, keeps every other entry as it was
\* and adds only successors of the expanded state.
C31_FailurePopOnlyRemoves ==
    [][(driver \in 1..3 /\ pc = "running" /\ frontier /= <<>>) =>
          LET it == history'[Len(history')]
          IN  /\ it.popped /\ Count(frontier, it.state) >= 1
              /\ Outnumbered(it.state) =>
                    /\ ~it.expanded /\ it.pushed = {}
                    /\ visited' = visited
                    /\ KeepsOthers(frontier, it.state, frontier', {})
                    /\ driver \in {2, 3} => frontier' = Tail(frontier)
              /\ it.expanded =>
                    /\ KeepsOthers(frontier, it.state, frontier', it.pushed)
                    /\ it.pushed \subseteq ChildrenOf(it.state)
                    /\ IsPrefixVec(visited, visited')]_vars

\* a_star has just popped and discarded a failure state while other entries
\* were pending.
C31_Witness ==
    /\ driver = 1 /\ pc = "running" /\ frontier /= <<>>
    /\ Len(history) >= 2
    /\ history[Len(history)].popped /\ ~history[Len(history)].expanded
    /\ Outnumbered(history[Len(history)].state)

(***************************************************************************)
(* Claims about the legacy send table (checked under SpecUnit)             *)
(***************************************************************************)
\* C32: for every side (c, m) with c and m in 0..3 every pair (a, b) of the
\* legacy get_all_send_combinations has a <= c and b <= m, and the legacy
\* get_child_states of a valid state subtracts no more than is present on the
\* boat's side: it does not panic and no count of a successor has wrapped.
C32_LegacySendsWithinSide ==
    /\ (op = "legacy_get_all_send_combinations" /\ input.l_c \in 0..3 /\ input.l_m \in 0..3) =>
          \A i \in 1..Len(ret.val) :
              ret.val[i][1] <= input.l_c /\ ret.val[i][2] <= input.l_m
    /\ (op = "legacy_get_child_states" /\ IsValid(self)) =>
          /\ ret.tag = "Ok"
          /\ \A i \in 1..Len(ret.val) :
                ret.val[i].tag = "Ok" =>
                    \A n \in {ret.val[i].val.left_state.cannibals,
                               ret.val[i].val.left_state.missionaries,
                               ret.val[i].val.right_state.cannibals,
                               ret.val[i].val.right_state.missionaries} : n <= 3

(***************************************************************************)
(* Claims about the goal and failure tests (checked under SpecUnit)        *)
(***************************************************************************)
\* What an iteration does with a popped state when it tests is_solution()
\* first, as the programs do, and when it tests is_game_over() first.
SolutionTestedFirst(ws) ==
    IF is_solution(ws) THEN "return" ELSE IF is_game_over(ws) THEN "discard" ELSE "expand"
FailureTestedFirst(ws) ==
    IF is_game_over(ws) THEN "discard" ELSE IF is_solution(ws) THEN "return" ELSE "expand"

\* C33: for every valid WorldState is_solution() and is_game_over() are not
\* both true, so testing is_solution() before is_game_over() decides the same
\* as testing is_game_over() first.
C33_GoalIsNoFailure ==
    (op \in {"is_solution", "is_game_over"} /\ IsValid(self)) =>
        /\ ~(is_solution(self) /\ is_game_over(self))
        /\ ret = Ok(IF op = "is_solution" THEN self.left_state.missionaries = 3
                    ELSE Outnumbered(self))
        /\ SolutionTestedFirst(self) = FailureTestedFirst(self)

\* is_solution() has returned true on a valid state with cannibals on both
\* sides, which is_game_over() does not take for a failure.
C33_Witness ==
    /\ op = "is_solution" /\ IsValid(self)
    /\ ret = Ok(TRUE)
    /\ self.left_state.cannibals = 2 /\ self.right_state.cannibals = 1
    /\ ~is_game_over(self)
    /\ SolutionTestedFirst(self) = "return"

(***************************************************************************)
(* Claims about the moves (checked under SpecUnit)                         *)
(***************************************************************************)
\* The Ok elements of a Vec<WorldStateResult>.
OkStatesOf(results) ==
    IF results.tag /= "Ok" THEN {}
    ELSE {results.val[i].val : i \in {j \in 1..Len(results.val) : results.val[j].tag = "Ok"}}

\* C34: for every valid state s and every successor t that s.get_child_states()
\* returns, t.get_child_states() returns a successor with the four counts and
\* the boat side of s.
C34_MovesAreReversible ==
    (op = "get_child_states" /\ IsValid(self)) =>
        /\ ret.tag = "Ok"
        /\ \A t \in OkStatesOf(ret) :
              \E u \in OkStatesOf(get_child_states(t)) : Config(u) = Config(self)

\* The configurations get_child_states returns for a configuration.
MovesOf(cfg) == {Config(t) : t \in OkStatesOf(get_child_states(cfg))}

RECURSIVE AllReached(_, _)
\* seen, with every configuration that get_child_states moves lead to from the
\* layer, failure states included.
AllReached(layer, seen) ==
    LET next == UNION {MovesOf(cfg) : cfg \in layer} \ seen
    IN  IF next = {} THEN seen ELSE AllReached(next, seen \cup next)

\* The configurations reachable from "0 0 3 3 right" by any sequence of moves.
ReachedFromInitialState ==
    LET root == Config(WorldState_try_from(INITIAL_STATE).val)
    IN  AllReached({root}, {root})

\* C35: in every state reachable from "0 0 3 3 right" by get_child_states
\* moves the boat's side holds at least one person; get_child_states of such a
\* state is not given the pair (0, 0), returns only successors that differ
\* from the state in at least one count, and these are reachable states too.
C35_BoatSideIsNeverEmpty ==
    (op = "get_child_states" /\ IsValid(self) /\ Config(self) \in ReachedFromInitialState) =>
        /\ BoatSideOf(self).cannibals + BoatSideOf(self).missionaries >= 1
        /\ <<0, 0>> \notin Range(get_all_send_combinations(BoatSideOf(self)))
        /\ ret.tag = "Ok"
        /\ \A t \in OkStatesOf(ret) :
              /\ t.left_state /= self.left_state /\ t.right_state /= self.right_state
              /\ Config(t) \in ReachedFromInitialState

\* get_child_states has been called on a reachable state that has a single
\* person on the boat's side, ten moves away from "0 0 3 3 right".
C35_Witness ==
    /\ op = "get_child_states" /\ IsValid(self)
    /\ Config(self) \in ReachedFromInitialState
    /\ self.boat_side = "LeftSide" /\ self.left_state = SideState_new(0, 1)
    /\ Cardinality(ReachedFromInitialState) = 30
    /\ Len(ret.val) = 1

(***************************************************************************)
(* Claims about provenance (checked under Spec)                            *)
(***************************************************************************)
\* The move a description "send a cannibals and b missionaries to the left|right
\* side" names.
MoveNamed(text) ==
    LET w == Split(text, " ")
    IN  [cann |-> ParseU8(w[2]).val, missi |-> ParseU8(w[5]).val, side |-> w[9]]

\* The configuration after the named move: a cannibals and b missionaries go
\* from the opposite side to the named side, and so does the boat.
AfterMove(cfg, mv) ==
    IF mv.side = "left"
    THEN [cfg EXCEPT !.left_state = SideState_new(cfg.left_state.cannibals + mv.cann,
                                                  cfg.left_state.missionaries + mv.missi),
                     !.right_state = SideState_new(cfg.right_state.cannibals - mv.cann,
                                                   cfg.right_state.missionaries - mv.missi),
                     !.boat_side = "LeftSide"]
    ELSE [cfg EXCEPT !.left_state = SideState_new(cfg.left_state.cannibals - mv.cann,
                                                  cfg.left_state.missionaries - mv.missi),
                     !.right_state = SideState_new(cfg.right_state.cannibals + mv.cann,
                                                   cfg.right_state.missionaries + mv.missi),
                     !.boat_side = "RightSide"]

RECURSIVE Replayed(_, _)
\* The configuration after the described moves, made in order.
Replayed(cfg, texts) ==
    IF texts = <<>> THEN cfg
    ELSE Replayed(AfterMove(cfg, MoveNamed(Head(texts))), Tail(texts))

\* The state's backtrack starts at the root and its moves lead from the
\* root's configuration to the state's.
ProvenanceLeadsTo(ws) ==
    LET steps == get_step_by_step_vec(ws)
    IN  /\ steps[1] = "root state"
        /\ Replayed(Config(Root), Tail(steps)) = Config(ws)

\* C36: in every run of a_star, dfs and greedy_best_first_search from a valid
\* root, for every state pushed onto the frontier (and so for every popped
\* state and for the solution), the moves named in its backtrack, applied in
\* order to the root's configuration, give exactly the state's four counts
\* and boat side.
C36_BacktrackReplaysToState ==
    (initial \in ValidTexts /\ driver \in 1..3) =>
        /\ \A e \in PushedEntries \cup Range(frontier) : ProvenanceLeadsTo(e)
        /\ \A i \in 1..Len(history) : ProvenanceLeadsTo(history[i].state)
        /\ solution.tag = "Some" => ProvenanceLeadsTo(solution.val)

\* dfs has ended on "0 0 3 3 right" with a solution several moves from the
\* root whose backtrack replays to it, entries still pending.
C36_Witness ==
    /\ initial = INITIAL_STATE /\ driver = 2 /\ pc = "done"
    /\ solution.tag = "Some"
    /\ Len(get_step_by_step_vec(solution.val)) >= 8
    /\ ProvenanceLeadsTo(solution.val)
    /\ frontier /= <<>>

(***************************************************************************)
(* Claims about the totals check under overflow (checked under SpecUnit)   *)
(***************************************************************************)
\* C37: for all counts in the u8 range, WorldState::new does not return Ok
\* when the sum of the cannibals or the sum of the missionaries, taken as
\* unbounded integers, differs from 3.
C37_NewRejectsOverflowingTotals ==
    (op = "new" /\ (input.l_c + input.r_c /= 3 \/ input.l_m + input.r_m /= 3)) =>
        ret.tag /= "Ok" /\ self = NoState

====
